---------------------------- MODULE Spec2Model ----------------------------
(***************************************************************************)
(* Verification model of the OpenCut Remotion component core:              *)
(*   - ModuleCompiler (validator, module resolver, bundle cache)           *)
(*   - the hot-reload watcher of DynamicComponentFromPath                  *)
(*   - the frame prerenderer used by export                                *)
(*                                                                         *)
(* Strings the code takes apart (module specifiers, file paths) are        *)
(* sequences of lexical pieces, e.g. "./B.tsx" is <<"./", "B", ".tsx">>.   *)
(* A source text is the record of what the code can observe of it: the     *)
(* forbidden-pattern features it contains, whether the translator accepts  *)
(* it, and the statements its body executes.                               *)
(***************************************************************************)
EXTENDS Integers, Sequences, FiniteSets, TLC

VARIABLES
  \* ModuleCompiler
  now,      \* Date.now()
  cache,    \* ModuleCompiler.cache: bundle id -> CompiledModule or None; a
            \* CompiledModule is [obj, bundleId, compiledAt, component] with
            \* obj its identity and, as history, src: the bundle compiled
  call,     \* the compile() call in progress or last returned
  pass,     \* the resolution pass of the call (executeMultiFileComponent)
  \* Hot-reload watcher (useComponentFiles + DynamicComponentFromPath)
  ext,        \* the external source: [lm, data]
  hook,       \* useComponentFiles state: files, error, loading, lastModified
  fetches,    \* the fetches in flight, oldest first
  dyn,        \* DynamicComponentFromPath state: compileError,
              \* CompiledComponent, compilationVersion
  recompiles, \* history: lastModified -> compile-effect runs it triggered
  \* Export with frame prerendering
  ex,              \* exportProject / prerenderAllRemotionElements in progress
  cancelRequested, \* what options.onCancel() returns
  \* RemotionManager
  store,  \* componentStorage: component name -> detail or None
  mgr,    \* componentRegistry, the timeline's element count per component,
          \* the loadAndRegisterComponent calls in flight, and history
  \* Rendering surfaces
  surface, \* per surface: the component rendered and its error boundary
  \* Compositor
  node,   \* a RemotionNode: its params, the canvas it draws on, and what
          \* its last render() did
  \* The props and life of the mounted DynamicComponentFromPath
  route,  \* componentPath, mounted, the load effect's run, and as history
          \* the path whose response was applied last
  \* AIAgentService.sendMessage
  sse,    \* the response stream not yet read, the line buffer, the events
          \* dispatched so far, and as history the events the server sent
  \* Dragging a Remotion element in the preview
  drag,   \* the element's position in the timeline's tracks, the wrapper's
          \* dragStartRef and elementRef, and the command history
  \* The timeline's tracks as removeComponentFromTimeline sees them
  tl,     \* the tracks with their elements, and as history the tracks
          \* before the last removal and the component removed
  \* RemotionManager.loadProjectComponents
  proj    \* the call's position in its loop, the registry and cache entries
          \* of the listed components, the notifications made, and as
          \* history what storage answered for each component

compilerVars == << now, cache, call, pass >>
watcherVars == << ext, hook, fetches, dyn, recompiles >>
prerenderVars == << ex, cancelRequested >>
managerVars == << store, mgr >>
surfaceVars == << surface >>
compositorVars == << node >>
routeVars == << route >>
sseVars == << sse >>
dragVars == << drag >>
timelineVars == << tl >>
projectVars == << proj >>

vars == << now, cache, call, pass, ext, hook, fetches, dyn, recompiles, ex,
           cancelRequested, store, mgr, surface, node, route, sse, drag, tl, proj >>

(***************************************************************************)
(* Bounds of the model.                                                    *)
(***************************************************************************)
\* Date.now() and updatedAt range over 0..MaxTime (milliseconds).
MaxTime == 2
\* Number of compile() calls made in one behaviour.
MaxCompileCalls == 2

None == [none |-> TRUE]

Times == 0..MaxTime

(***************************************************************************)
(* Source texts and values.                                                *)
(***************************************************************************)
\* An exported value is a sequence: <<"fn1">> a function, <<"wrap", v...>>
\* an object whose `default` is v, <<"obj">> a plain object, <<"str">> a
\* truthy non-function, <<"null">> a falsy value.
Fn1 == <<"fn1">>
Fn2 == <<"fn2">>

Req(spec) == [op |-> "require", arg |-> spec, name |-> "", val |-> <<>>]
Exp(n, v) == [op |-> "export", arg |-> <<>>, name |-> n, val |-> v]
Throw == [op |-> "throw", arg |-> <<>>, name |-> "", val |-> <<>>]

Text(feat, ok, stmts) == [empty |-> FALSE, features |-> feat, syntaxOk |-> ok, body |-> stmts]
EmptyText == [empty |-> TRUE, features |-> {}, syntaxOk |-> TRUE, body |-> <<>>]

File(p, c) == [path |-> p, content |-> c]

\* The file sets the bundles are drawn from.
FilesSingle == << File(<<"index", ".tsx">>, Text({}, TRUE, <<Exp("default", Fn1)>>)) >>
FilesSingleV2 == << File(<<"index", ".tsx">>, Text({"window.innerWidth"}, TRUE, <<Exp("default", Fn2)>>)) >>
FilesForbidden ==
  << File(<<"index", ".tsx">>, Text({"eval(", "fetch("}, TRUE, <<Exp("default", Fn1)>>)),
     File(<<"util", ".ts">>, Text({"window.location"}, TRUE, <<Exp("helper", Fn2)>>)) >>
FilesCycle ==
  << File(<<"index", ".tsx">>,
          Text({}, TRUE, <<Exp("early", Fn2), Req(<<"./", "B">>), Exp("default", Fn1)>>)),
     File(<<"B", ".tsx">>,
          Text({}, TRUE, <<Req(<<"./", "index", ".tsx">>), Exp("default", Fn2)>>)) >>
FilesNamedOnly == << File(<<"index", ".tsx">>, Text({}, TRUE, <<Exp("Foo", Fn1)>>)) >>
FilesNotCallable == << File(<<"index", ".tsx">>, Text({}, TRUE, <<Exp("default", <<"str">>)>>)) >>
FilesSyntax == << File(<<"index", ".tsx">>, Text({}, FALSE, <<>>)) >>
FilesThrow ==
  << File(<<"index", ".tsx">>, Text({}, TRUE, <<Req(<<"react">>), Req(<<"lodash">>), Throw>>)) >>

Index == <<"index", ".tsx">>

Shape(fs, e, d) == [files |-> fs, entryPoint |-> e, dependencies |-> d]

\* What a bundle holds besides its id and updatedAt.
BundleShapes ==
  { Shape(FilesSingle, Index, <<>>),
    Shape(FilesSingleV2, Index, <<"react">>),
    Shape(FilesSingle, <<"main", ".tsx">>, <<"lodash">>),
    Shape(FilesForbidden, Index, <<>>),
    Shape(FilesCycle, Index, <<>>),
    Shape(FilesCycle, <<"B", ".tsx">>, <<>>),
    Shape(FilesNamedOnly, Index, <<>>),
    Shape(FilesNotCallable, Index, <<>>),
    Shape(FilesSyntax, Index, <<>>),
    Shape(FilesThrow, Index, <<>>) }

\* Bundle ids are arbitrary strings; "" is one of them.
BundleIds == { "", "b1" }

Bundle(i, u, sh) ==
  [id |-> i, updatedAt |-> u, files |-> sh.files, entryPoint |-> sh.entryPoint,
   dependencies |-> sh.dependencies]

\* The bundle stored under "" keeps one shape; the one under "b1" is edited
\* into every shape.
Bundles ==
  { Bundle("", u, Shape(FilesSingle, Index, <<>>)) : u \in Times } \cup
  { Bundle("b1", u, sh) : u \in Times, sh \in BundleShapes }

(***************************************************************************)
(* String helpers: what the regular expressions and startsWith tests do.   *)
(***************************************************************************)
SourceExt == { ".tsx", ".ts", ".js", ".jsx" }

\* s.replace(/\.(tsx|ts|jsx|js)$/, "")
StripExt(s) ==
  IF Len(s) > 0 /\ s[Len(s)] \in SourceExt THEN SubSeq(s, 1, Len(s) - 1) ELSE s

\* s.replace(/^\.\//, "")
StripDotSlash(s) == IF Len(s) > 0 /\ s[1] = "./" THEN Tail(s) ELSE s

\* s.replace(/^\.\.\//, "")
StripDotDotSlash(s) == IF Len(s) > 0 /\ s[1] = "../" THEN Tail(s) ELSE s

IsRelative(s) == Len(s) > 0 /\ s[1] \in { "./", "../" }

StartsWithDotOrSlash(s) == Len(s) > 0 /\ s[1] \in { "./", "../", ".", "/" }

\* JavaScript truthiness of a string.
Truthy(str) == str # ""

(***************************************************************************)
(* Source Validator.                                                       *)
(***************************************************************************)
\* Each pattern with the features of a text its regular expression matches.
\* window.innerWidth / window.innerHeight are excluded by the lookahead.
FORBIDDEN_PATTERNS ==
  << [matches |-> {"eval("}, message |-> "eval"],
     [matches |-> {"document."}, message |-> "document"],
     [matches |-> {"window.location"}, message |-> "window"],
     [matches |-> {"localStorage"}, message |-> "localStorage"],
     [matches |-> {"sessionStorage"}, message |-> "sessionStorage"],
     [matches |-> {"fetch("}, message |-> "fetch"],
     [matches |-> {"XMLHttpRequest"}, message |-> "XMLHttpRequest"],
     [matches |-> {"process."}, message |-> "process"],
     [matches |-> {"__dirname"}, message |-> "__dirname"],
     [matches |-> {"__filename"}, message |-> "__filename"],
     [matches |-> {"import("}, message |-> "import()"] >>

PatternTest(p, code) == (p.matches \cap code.features) # {}

CompileErr(f, kind, msg) == [file |-> f, kind |-> kind, message |-> msg]

RECURSIVE ValidateFrom(_, _, _)
ValidateFrom(i, code, filePath) ==
  IF i > Len(FORBIDDEN_PATTERNS) THEN <<>>
  ELSE (IF PatternTest(FORBIDDEN_PATTERNS[i], code)
          THEN << CompileErr(filePath, "security", FORBIDDEN_PATTERNS[i].message) >>
          ELSE <<>>)
       \o ValidateFrom(i + 1, code, filePath)

\* Variant: the scan stops at the first pattern that matches.
validateCode_FirstOnly(code, filePath) ==
  LET all == ValidateFrom(1, code, filePath)
  IN IF all = <<>> THEN <<>> ELSE << Head(all) >>

validateCode(code, filePath) == ValidateFrom(1, code, filePath)

ALLOWED_DEPENDENCIES == { "react", "remotion", "framer-motion", "@remotion/transitions" }

isAllowedDependency(dep) == dep \in ALLOWED_DEPENDENCIES

\* The translator (Sucrase transform): succeeds or throws a syntax fault.
TransformThrows(code) == ~code.syntaxOk

RECURSIVE ValidateDeps(_)
ValidateDeps(deps) ==
  IF deps = <<>> THEN <<>>
  ELSE (IF isAllowedDependency(Head(deps)) THEN <<>>
        ELSE << CompileErr(<<"manifest">>, "dependency", Head(deps)) >>)
       \o ValidateDeps(Tail(deps))

RECURSIVE ValidateFiles(_)
ValidateFiles(files) ==
  IF files = <<>> THEN <<>>
  ELSE validateCode(Head(files).content, Head(files).path)
       \o (IF TransformThrows(Head(files).content)
             THEN << CompileErr(Head(files).path, "syntax", "syntax") >>
             ELSE <<>>)
       \o ValidateFiles(Tail(files))

\* ModuleCompiler.validate
validate(bundle) ==
  (IF \E k \in 1..Len(bundle.files) : bundle.files[k].path = bundle.entryPoint
     THEN <<>>
     ELSE << CompileErr(bundle.entryPoint, "entry", "missing") >>)
  \o ValidateDeps(bundle.dependencies)
  \o ValidateFiles(bundle.files)

(***************************************************************************)
(* Module Graph Resolver + Execution Sandbox (executeMultiFileComponent).  *)
(* A resolution pass is a machine m:                                       *)
(*   files       fileContents, name -> source text                         *)
(*   moduleCache name -> [exports, compiled]                               *)
(*   heap        the exports objects created so far; a reference is an     *)
(*               index into heap, RemotionRef/ReactRef for the built-ins   *)
(*   stack       the modules whose bodies are executing, innermost last    *)
(*   status      "running", "returned" or "threw"                         *)
(*   entered, handed, steps   history of the pass (bodies entered in       *)
(*               order, references returned by require, steps taken)       *)
(***************************************************************************)
NullRef == 0
RemotionRef == 0 - 1
ReactRef == 0 - 2

EmptyObj == [k \in {} |-> <<>>]

Put(f, k, v) == [x \in DOMAIN f \cup {k} |-> IF x = k THEN v ELSE f[x]]

\* ModuleCompiler.compile step 2: { name without extension: content },
\* a later file of the same name replacing an earlier one.
FileContents(files) ==
  [ n \in { StripExt(files[k].path) : k \in 1..Len(files) } |->
      LET ks == { k \in 1..Len(files) : StripExt(files[k].path) = n }
          last == CHOOSE k \in ks : \A j \in ks : j <= k
      IN files[last].content ]

\* `fileContents[name]` followed by `if (!code)`.
HasCode(fc, name) == name \in DOMAIN fc /\ ~fc[name].empty

mockModules == [ k \in { <<"remotion">>, <<"react">> } |->
                   IF k = <<"remotion">> THEN RemotionRef ELSE ReactRef ]

NewPass(fc) ==
  [ files |-> fc, moduleCache |-> EmptyObj, heap |-> <<>>, stack |-> <<>>,
    status |-> "running", mainExports |-> NullRef,
    entered |-> <<>>, handed |-> {}, steps |-> 0 ]

Top(m) == m.stack[Len(m.stack)]

\* Variant: only a completed module counts as cached.
HasCacheEntry_CompiledOnly(mc, name) == name \in DOMAIN mc /\ mc[name].compiled

\* compileModule line 233: `if (moduleCache[name])`.
HasCacheEntry(mc, name) == name \in DOMAIN mc

\* createModuleRequire line 183: `moduleCache[cleanName]?.compiled`.
IsCompiled(mc, name) == name \in DOMAIN mc /\ mc[name].compiled

\* The exports object compileModule records for a module whose body has
\* completed (line 268): the object the body populated.
CompletedExports(frame, mc) == frame.exports

\* compileModule(name, code) when no cache entry exists: install the
\* placeholder, translate, create the module environment and enter the body.
EnterModule(m, name) ==
  LET placeholder == Len(m.heap) + 1
      mc1 == Put(m.moduleCache, name, [exports |-> placeholder, compiled |-> FALSE])
      heap1 == Append(m.heap, EmptyObj)
  IN IF TransformThrows(m.files[name])
       THEN [m EXCEPT !.moduleCache = mc1, !.heap = heap1, !.status = "threw"]
       ELSE [m EXCEPT !.moduleCache = mc1,
                      !.heap = Append(heap1, EmptyObj),
                      !.stack = Append(m.stack,
                                       [name |-> name, pc |-> 1, exports |-> placeholder + 1]),
                      !.entered = Append(m.entered, name)]

\* The value a require call hands back to the module on top of the stack.
Deliver(m, target, ref, fresh) ==
  LET f == Top(m)
  IN [m EXCEPT !.heap = IF fresh THEN Append(m.heap, EmptyObj) ELSE m.heap,
               !.stack[Len(m.stack)].pc = f.pc + 1,
               !.handed = m.handed \cup
                  { [to |-> f.name, of |-> target, ref |-> ref,
                     early |-> HasCacheEntry(m.moduleCache, target)
                               /\ ~IsCompiled(m.moduleCache, target)] }]

\* Variant: compileModule without its cache check.
compileModule_NoCache(m, name) == EnterModule(m, name)

\* compileModule(name, code) called from require.
compileModule(m, name) ==
  IF HasCacheEntry(m.moduleCache, name)
    THEN Deliver(m, name, m.moduleCache[name].exports, FALSE)
    ELSE EnterModule(m, name)

\* Variant: a relative import of a file that has not run yet is answered
\* with an empty object instead of running the file.
createModuleRequire_NoCompile(m, moduleName) ==
  LET cleanName == StripExt(StripDotDotSlash(StripDotSlash(moduleName)))
      fresh == Len(m.heap) + 1
  IN IF moduleName \in DOMAIN mockModules
       THEN Deliver(m, moduleName, mockModules[moduleName], FALSE)
     ELSE IF IsRelative(moduleName) /\ IsCompiled(m.moduleCache, cleanName)
       THEN Deliver(m, cleanName, m.moduleCache[cleanName].exports, FALSE)
     ELSE Deliver(m, moduleName, fresh, TRUE)

\* Variant: an import that resolves to nothing fails the pass.
createModuleRequire_Strict(m, moduleName) ==
  LET cleanName == StripExt(StripDotDotSlash(StripDotSlash(moduleName)))
  IN IF moduleName \in DOMAIN mockModules
       THEN Deliver(m, moduleName, mockModules[moduleName], FALSE)
     ELSE IF IsRelative(moduleName) /\ IsCompiled(m.moduleCache, cleanName)
       THEN Deliver(m, cleanName, m.moduleCache[cleanName].exports, FALSE)
     ELSE IF IsRelative(moduleName) /\ HasCode(m.files, cleanName)
       THEN compileModule(m, cleanName)
     ELSE [m EXCEPT !.status = "threw"]

\* The function createModuleRequire returns, applied to moduleName.
createModuleRequire(m, moduleName) ==
  LET cleanName == StripExt(StripDotDotSlash(StripDotSlash(moduleName)))
      fresh == Len(m.heap) + 1
  IN IF moduleName \in DOMAIN mockModules
       THEN Deliver(m, moduleName, mockModules[moduleName], FALSE)
     ELSE IF ~StartsWithDotOrSlash(moduleName)
       THEN Deliver(m, moduleName, fresh, TRUE)
     ELSE IF IsRelative(moduleName)
       THEN IF IsCompiled(m.moduleCache, cleanName)
              THEN Deliver(m, cleanName, m.moduleCache[cleanName].exports, FALSE)
            ELSE IF ~HasCode(m.files, cleanName)
              THEN Deliver(m, cleanName, fresh, TRUE)
            ELSE compileModule(m, cleanName)
     ELSE Deliver(m, moduleName, fresh, TRUE)

\* The body on top of the stack ran to its end: compileModule lines 267-270.
FinishModule(m) ==
  LET f == Top(m)
      mc1 == Put(m.moduleCache, f.name,
                 [exports |-> CompletedExports(f, m.moduleCache), compiled |-> TRUE])
      rest == SubSeq(m.stack, 1, Len(m.stack) - 1)
  IN IF rest = <<>>
       THEN [m EXCEPT !.moduleCache = mc1, !.stack = rest,
                      !.status = "returned", !.mainExports = f.exports]
       ELSE [m EXCEPT !.moduleCache = mc1,
                      !.stack = [rest EXCEPT ![Len(rest)].pc = rest[Len(rest)].pc + 1],
                      !.handed = m.handed \cup
                         { [to |-> rest[Len(rest)].name, of |-> f.name,
                            ref |-> f.exports, early |-> FALSE] }]

\* One step of the executing body: the sandbox runs the next statement.
StepPass(m) ==
  LET f == Top(m)
      body == m.files[f.name].body
      m1 == [m EXCEPT !.steps = m.steps + 1]
  IN IF f.pc > Len(body) THEN FinishModule(m1)
     ELSE LET st == body[f.pc]
          IN CASE st.op = "export" ->
                    [m1 EXCEPT !.heap[f.exports] = Put(m.heap[f.exports], st.name, st.val),
                               !.stack[Len(m.stack)].pc = f.pc + 1]
               [] st.op = "throw" -> [m1 EXCEPT !.status = "threw"]
               [] st.op = "require" -> createModuleRequire(m1, st.arg)

\* Entry extraction, executeMultiFileComponent lines 290-314: the component
\* or NoComponent.
NoComponent == <<"null">>

IsFalsy(v) == v = <<>> \/ v = <<"null">>
IsObject(v) == v # <<>> /\ v[1] \in { "wrap", "obj" }
IsFunction(v) == v # <<>> /\ v[1] \in { "fn1", "fn2" }
Prop(obj, k) == IF k \in DOMAIN obj THEN obj[k] ELSE <<>>

\* Variant: the `typeof Component !== "function"` test is missing.
ExtractComponent_NoTypeCheck(mainExports) ==
  LET first == IF ~IsFalsy(Prop(mainExports, "default"))
                 THEN Prop(mainExports, "default")
                 ELSE Prop(mainExports, "Component")
      unwrapped == IF ~IsFalsy(first) /\ IsObject(first) /\ first[1] = "wrap"
                     THEN Tail(first) ELSE first
  IN IF IsFalsy(unwrapped) THEN NoComponent
     ELSE unwrapped

\* Variant: wrappers are unwrapped until the value exposes no default.
RECURSIVE UnwrapAll(_)
UnwrapAll(v) ==
  IF ~IsFalsy(v) /\ IsObject(v) /\ v[1] = "wrap" THEN UnwrapAll(Tail(v)) ELSE v

ExtractComponent_UnwrapsAll(mainExports) ==
  LET first == IF ~IsFalsy(Prop(mainExports, "default"))
                 THEN Prop(mainExports, "default")
                 ELSE Prop(mainExports, "Component")
      unwrapped == UnwrapAll(first)
  IN IF IsFalsy(unwrapped) THEN NoComponent
     ELSE IF ~IsFunction(unwrapped) THEN NoComponent
     ELSE unwrapped

ExtractComponent(mainExports) ==
  LET first == IF ~IsFalsy(Prop(mainExports, "default"))
                 THEN Prop(mainExports, "default")
                 ELSE Prop(mainExports, "Component")
      unwrapped == IF ~IsFalsy(first) /\ IsObject(first) /\ first[1] = "wrap"
                     THEN Tail(first) ELSE first
  IN IF IsFalsy(unwrapped) THEN NoComponent
     ELSE IF ~IsFunction(unwrapped) THEN NoComponent
     ELSE unwrapped

(***************************************************************************)
(* Bundle Cache state.                                                     *)
(***************************************************************************)
NoResult == [kind |-> "none", module |-> None, errors |-> <<>>]
IdleCall ==
  [ n |-> 0, pc |-> "idle", bundle |-> None, errors |-> <<>>, result |-> NoResult,
    before |-> None, work |-> {} ]

NoPass == NewPass(EmptyObj)

(***************************************************************************)
(* Bundle Cache: ModuleCompiler.compile and clearCache.                    *)
(***************************************************************************)
\* Variants of the freshness test: the comparison inverted, and `>=`.
CacheFresh_Inverted(cached, bundle) == cached.compiledAt < bundle.updatedAt
CacheFresh_OrEqual(cached, bundle) == cached.compiledAt >= bundle.updatedAt

\* compile line 328: `cached.compiledAt > Date.parse(bundle.updatedAt)`.
CacheFresh(cached, bundle) == cached.compiledAt > bundle.updatedAt

\* No JavaScript runs while a synchronous run is in progress.
Quiescent == call.pc # "exec"

Tick ==
  /\ Quiescent
  /\ now < MaxTime
  /\ now' = now + 1
  /\ UNCHANGED << cache, call, pass >>
  /\ UNCHANGED << watcherVars, prerenderVars, managerVars, surfaceVars, compositorVars, routeVars, sseVars, dragVars, timelineVars, projectVars >>

\* compile(bundle) up to its first suspension: the cache check, and on a miss
\* validate(bundle), whose result is awaited.
CompileBegin(b) ==
  /\ call.pc \in { "idle", "done" }
  /\ call.n < MaxCompileCalls
  /\ LET cached == cache[b.id]
         c0 == [IdleCall EXCEPT !.n = call.n + 1, !.bundle = b, !.before = cached]
     IN IF cached # None /\ CacheFresh(cached, b)
          THEN call' = [c0 EXCEPT !.pc = "done",
                                  !.result = [kind |-> "ok", module |-> cached, errors |-> <<>>]]
          ELSE call' = [c0 EXCEPT !.pc = "await", !.errors = validate(b),
                                  !.work = { "validate" }]
  /\ UNCHANGED << now, cache, pass >>
  /\ UNCHANGED << watcherVars, prerenderVars, managerVars, surfaceVars, compositorVars, routeVars, sseVars, dragVars, timelineVars, projectVars >>

\* compile after `await this.validate(bundle)`: raise on violations, else
\* build the file map and start executeMultiFileComponent.
CompileResume ==
  /\ call.pc = "await"
  /\ LET b == call.bundle
         fc == FileContents(b.files)
         mainFileName == StripExt(b.entryPoint)
     IN IF call.errors # <<>>
          THEN /\ call' = [call EXCEPT !.pc = "done",
                             !.result = [kind |-> "CompileException", module |-> None,
                                         errors |-> call.errors]]
               /\ pass' = pass
        ELSE IF ~HasCode(fc, mainFileName)
          THEN /\ call' = [call EXCEPT !.pc = "done",
                             !.result = [kind |-> "Error", module |-> None, errors |-> <<>>]]
               /\ pass' = pass
        ELSE /\ call' = [call EXCEPT !.pc = "exec",
                                      !.work = call.work \cup { "translate", "execute" }]
             /\ pass' = EnterModule(NewPass(fc), mainFileName)
  /\ UNCHANGED << now, cache >>
  /\ UNCHANGED << watcherVars, prerenderVars, managerVars, surfaceVars, compositorVars, routeVars, sseVars, dragVars, timelineVars, projectVars >>

\* One statement of the module body being executed.
PassStep ==
  /\ call.pc = "exec"
  /\ pass.status = "running"
  /\ pass' = StepPass(pass)
  /\ UNCHANGED << now, cache, call >>
  /\ UNCHANGED << watcherVars, prerenderVars, managerVars, surfaceVars, compositorVars, routeVars, sseVars, dragVars, timelineVars, projectVars >>

\* A compile that stores what it built before checking the component.
CompileFinish_StoresFirst ==
  /\ call.pc = "exec"
  /\ pass.status # "running"
  /\ LET b == call.bundle
         Component == IF pass.status = "returned"
                        THEN ExtractComponent(pass.heap[pass.mainExports])
                        ELSE NoComponent
         compiled == [ obj |-> call.n, bundleId |-> b.id, compiledAt |-> now,
                       component |-> Component, src |-> b ]
     IN IF Component = NoComponent
          THEN /\ call' = [call EXCEPT !.pc = "done",
                             !.result = [kind |-> "Error", module |-> None, errors |-> <<>>]]
               /\ cache' = [cache EXCEPT ![b.id] = compiled]
          ELSE /\ cache' = [cache EXCEPT ![b.id] = compiled]
               /\ call' = [call EXCEPT !.pc = "done",
                             !.result = [kind |-> "ok", module |-> compiled, errors |-> <<>>]]
  /\ pass' = NoPass
  /\ now' = now
  /\ UNCHANGED << watcherVars, prerenderVars, managerVars, surfaceVars, compositorVars, routeVars, sseVars, dragVars, timelineVars, projectVars >>

\* A compile that refreshes the fields of the cached object in place.
CompileFinish_UpdatesInPlace ==
  /\ call.pc = "exec"
  /\ pass.status # "running"
  /\ LET b == call.bundle
         Component == IF pass.status = "returned"
                        THEN ExtractComponent(pass.heap[pass.mainExports])
                        ELSE NoComponent
         compiled == [ obj |-> IF call.before # None THEN call.before.obj ELSE call.n, bundleId |-> b.id, compiledAt |-> now,
                       component |-> Component, src |-> b ]
     IN IF Component = NoComponent
          THEN /\ call' = [call EXCEPT !.pc = "done",
                             !.result = [kind |-> "Error", module |-> None, errors |-> <<>>]]
               /\ cache' = cache
          ELSE /\ cache' = [cache EXCEPT ![b.id] = compiled]
               /\ call' = [call EXCEPT !.pc = "done",
                             !.result = [kind |-> "ok", module |-> compiled, errors |-> <<>>]]
  /\ pass' = NoPass
  /\ now' = now
  /\ UNCHANGED << watcherVars, prerenderVars, managerVars, surfaceVars, compositorVars, routeVars, sseVars, dragVars, timelineVars, projectVars >>

\* executeMultiFileComponent returned or threw: compile lines 354-371.
CompileFinish ==
  /\ call.pc = "exec"
  /\ pass.status # "running"
  /\ LET b == call.bundle
         Component == IF pass.status = "returned"
                        THEN ExtractComponent(pass.heap[pass.mainExports])
                        ELSE NoComponent
         compiled == [ obj |-> call.n, bundleId |-> b.id, compiledAt |-> now,
                       component |-> Component, src |-> b ]
     IN IF Component = NoComponent
          THEN /\ call' = [call EXCEPT !.pc = "done",
                             !.result = [kind |-> "Error", module |-> None, errors |-> <<>>]]
               /\ cache' = cache
          ELSE /\ cache' = [cache EXCEPT ![b.id] = compiled]
               /\ call' = [call EXCEPT !.pc = "done",
                             !.result = [kind |-> "ok", module |-> compiled, errors |-> <<>>]]
  /\ pass' = NoPass
  /\ now' = now
  /\ UNCHANGED << watcherVars, prerenderVars, managerVars, surfaceVars, compositorVars, routeVars, sseVars, dragVars, timelineVars, projectVars >>

\* clearCache(bundleId?): the argument is a string (given) or undefined.
Given(i) == [given |-> TRUE, id |-> i]
Undefined == [given |-> FALSE, id |-> ""]
ClearArgs == { Given(i) : i \in BundleIds } \cup { Undefined }

\* clearCache line 427: `if (bundleId)`.
DeletesOne(bundleId) == bundleId.given /\ Truthy(bundleId.id)

\* The cache clearCache(bundleId) leaves.
CacheAfterClear(bundleId) ==
  IF DeletesOne(bundleId)
    THEN [cache EXCEPT ![bundleId.id] = None]
    ELSE [i \in BundleIds |-> None]

clearCache(bundleId) ==
  /\ Quiescent
  /\ cache' = CacheAfterClear(bundleId)
  /\ cache' # cache
  /\ UNCHANGED << now, call, pass >>
  /\ UNCHANGED << watcherVars, prerenderVars, managerVars, surfaceVars, compositorVars, routeVars, sseVars, dragVars, timelineVars, projectVars >>

InitCompiler ==
  /\ now = 0
  /\ cache = [i \in BundleIds |-> None]
  /\ call = IdleCall
  /\ pass = NoPass

NextCompiler ==
  \/ Tick
  \/ \E b \in Bundles : CompileBegin(b)
  \/ CompileResume
  \/ PassStep
  \/ CompileFinish
  \/ \E a \in ClearArgs : clearCache(a)

(***************************************************************************)
(* Hot Reload Watcher: useComponentFiles and the compile effect of         *)
(* DynamicComponentFromPath.                                               *)
(***************************************************************************)
\* The external lastModified ranges over 1..MaxLastModified.
MaxLastModified == 2
\* Fetches in flight at the same time.
MaxInFlight == 2

\* The run of a resolution pass to its end.
RECURSIVE RunPass(_)
RunPass(m) == IF m.status # "running" THEN m ELSE RunPass(StepPass(m))

\* What /api/component serves as data.files: the file map and its __main__.
Served(mainName, fc) == [main |-> mainName, files |-> fc]

One(name, text) == [n \in { name } |-> text]

DataGood1 == Served(<<"component">>, One(<<"component">>, Text({}, TRUE, <<Exp("default", Fn1)>>)))
DataGood2 == Served(<<>>, One(<<"component">>, Text({}, TRUE, <<Exp("Component", Fn2)>>)))
DataSyntax == Served(<<"component">>, One(<<"component">>, Text({}, FALSE, <<>>)))
DataNoComponent == Served(<<"component">>, One(<<"component">>, Text({}, TRUE, <<Exp("Foo", Fn1)>>)))
DataForbidden ==
  Served(<<"component">>, One(<<"component">>, Text({"eval("}, TRUE, <<Exp("default", Fn2)>>)))

ServedData == { DataGood1, DataGood2, DataSyntax, DataNoComponent, DataForbidden }

\* executeMultiFileComponent of DynamicComponent: the component, NoComponent
\* (null), or a thrown error.
Threw == <<"threw">>

executeMultiFileComponentFromFiles(data) ==
  LET mainFileName == IF data.main # <<>> THEN data.main ELSE <<"component">>
  IN IF ~HasCode(data.files, mainFileName) THEN NoComponent
     ELSE LET m == RunPass(EnterModule(NewPass(data.files), mainFileName))
          IN IF m.status = "threw" THEN Threw
             ELSE ExtractComponent(m.heap[m.mainExports])

\* executeMultiFileComponent applied to each file map the server serves.
Executed == [d \in ServedData |-> executeMultiFileComponentFromFiles(d)]

\* A compile effect that counts every run, failed ones included.
CompileEffect_CountsFailures(c, files) ==
  IF files = None THEN [c EXCEPT !.CompiledComponent = NoComponent]
  ELSE LET Comp == Executed[files.data]
       IN IF Comp = Threw
            THEN [c EXCEPT !.compileError = TRUE, !.CompiledComponent = NoComponent,
                           !.compilationVersion = c.compilationVersion + 1]
          ELSE IF Comp = NoComponent
            THEN [c EXCEPT !.compileError = TRUE,
                           !.compilationVersion = c.compilationVersion + 1]
          ELSE [c EXCEPT !.compileError = FALSE, !.CompiledComponent = Comp,
                         !.compilationVersion = c.compilationVersion + 1]

\* The compile effect of DynamicComponentFromPath, run when `files` changed.
CompileEffect(c, files) ==
  IF files = None THEN [c EXCEPT !.CompiledComponent = NoComponent]
  ELSE LET Comp == Executed[files.data]
       IN IF Comp = Threw
            THEN [c EXCEPT !.compileError = TRUE, !.CompiledComponent = NoComponent]
          ELSE IF Comp = NoComponent
            THEN [c EXCEPT !.compileError = TRUE]
          ELSE [c EXCEPT !.compileError = FALSE, !.CompiledComponent = Comp,
                         !.compilationVersion = c.compilationVersion + 1]

\* A request in flight. `at` records the external lastModified at the moment
\* the server answered (history).
Fetch(k, closure) ==
  [kind |-> k, closureLM |-> closure, served |-> FALSE, ok |-> FALSE, lm |-> 0,
   data |-> None, at |-> 0, path |-> route.componentPath, effect |-> route.effect]

\* The component paths a sequence can name. The file behind "p1" is the one
\* that gets edited (ext); the one behind "p2" stays as it is.
Paths == { "p1", "p2" }
OtherComponent == [lm |-> 1, data |-> DataGood2]
OnDisk(path) == IF path = "p1" THEN ext ELSE OtherComponent

\* The sequence's componentPath prop changes at most MaxPathChanges times.
MaxPathChanges == 1

InitRoute ==
  route = [componentPath |-> "p1", mounted |-> TRUE, effect |-> 0, changes |-> 0,
           shown |-> "", flip |-> FALSE]

\* History: a response of a fetch issued for `path` was applied.
Shown(path) == [route EXCEPT !.shown = path, !.flip = ~route.flip]

\* The load effect's `cancelled` flag as the fetch's continuation sees it:
\* set by the cleanup when componentPath changed or the component unmounted.
Cancelled(f) == f.effect # route.effect

RemoveAt(seq, i) == SubSeq(seq, 1, i - 1) \o SubSeq(seq, i + 1, Len(seq))

\* checkForUpdates line 480: `newLastModified > lastModified`, lastModified
\* being the value the effect closed over.
IsNewer(newLastModified, closureLM) == newLastModified > closureLM

\* An author (or the AI agent) edits the component on disk.
ExternalEdit ==
  /\ ext.lm < MaxLastModified
  /\ \E d \in ServedData \ { ext.data } : ext' = [lm |-> ext.lm + 1, data |-> d]
  /\ UNCHANGED << hook, fetches, dyn, recompiles >>
  /\ UNCHANGED << compilerVars, prerenderVars, managerVars, surfaceVars, compositorVars, routeVars, sseVars, dragVars, timelineVars, projectVars >>

\* The interval fires: checkForUpdates starts its fetch.
PollTick ==
  /\ route.mounted
  /\ Len(fetches) < MaxInFlight
  /\ fetches' = Append(fetches, Fetch("poll", hook.lastModified))
  /\ UNCHANGED << ext, hook, dyn, recompiles >>
  /\ UNCHANGED << compilerVars, prerenderVars, managerVars, surfaceVars, compositorVars, routeVars, sseVars, dragVars, timelineVars, projectVars >>

\* The server answers a request with the component as it is now, or fails.
ServeResult(i, success) ==
  /\ ~fetches[i].served
  /\ fetches' = [fetches EXCEPT ![i] =
                   [@ EXCEPT !.served = TRUE, !.ok = success, !.at = ext.lm,
                             !.lm = IF success THEN OnDisk(fetches[i].path).lm ELSE 0,
                             !.data = IF success THEN OnDisk(fetches[i].path).data ELSE None]]
  /\ UNCHANGED << ext, hook, dyn, recompiles >>
  /\ UNCHANGED << compilerVars, prerenderVars, managerVars, surfaceVars, compositorVars, routeVars, sseVars, dragVars, timelineVars, projectVars >>

Serve(i) == \E success \in BOOLEAN : ServeResult(i, success)

\* State after a response was applied: setFiles, setLastModified,
\* setError(null), then the compile effect for the new files. loadFiles also
\* ends with setLoading(false); checkForUpdates does not touch `loading`.
Apply(f) ==
  /\ hook' = [hook EXCEPT !.files = [lm |-> f.lm, data |-> f.data],
                          !.lastModified = f.lm, !.error = FALSE,
                          !.loading = IF f.kind = "load" THEN FALSE ELSE @]
  /\ dyn' = CompileEffect(dyn, [lm |-> f.lm, data |-> f.data])
  /\ recompiles' = [recompiles EXCEPT ![f.lm] = @ + 1]

\* The response of a checkForUpdates fetch arrives. checkForUpdates has no
\* cancelled flag; the state setters of an unmounted component do nothing.
PollComplete(i) ==
  /\ fetches[i].kind = "poll"
  /\ fetches[i].served
  /\ fetches' = RemoveAt(fetches, i)
  /\ IF fetches[i].ok /\ IsNewer(fetches[i].lm, fetches[i].closureLM) /\ route.mounted
       THEN Apply(fetches[i]) /\ route' = Shown(fetches[i].path)
       ELSE UNCHANGED << hook, dyn, recompiles, route >>
  /\ ext' = ext
  /\ UNCHANGED << compilerVars, prerenderVars, managerVars, surfaceVars, compositorVars, sseVars, dragVars, timelineVars, projectVars >>

\* The response of the loadFiles fetch arrives.
LoadComplete(i) ==
  /\ fetches[i].kind = "load"
  /\ fetches[i].served
  /\ fetches' = RemoveAt(fetches, i)
  /\ IF Cancelled(fetches[i])
       THEN UNCHANGED << hook, dyn, recompiles, route >>
     ELSE IF fetches[i].ok
       THEN Apply(fetches[i]) /\ route' = Shown(fetches[i].path)
       ELSE /\ hook' = [hook EXCEPT !.error = TRUE, !.loading = FALSE]
            /\ UNCHANGED << dyn, recompiles, route >>
  /\ ext' = ext
  /\ UNCHANGED << compilerVars, prerenderVars, managerVars, surfaceVars, compositorVars, sseVars, dragVars, timelineVars, projectVars >>

\* The component has mounted: loadFiles is fetching, the interval is set, and
\* the compile effect ran once with files = null.
InitWatcher ==
  /\ ext \in { [lm |-> 1, data |-> d] : d \in { DataGood1, DataSyntax } }
  /\ hook = [files |-> None, error |-> FALSE, loading |-> TRUE, lastModified |-> 0]
  /\ fetches = << Fetch("load", 0) >>
  /\ dyn = [compileError |-> FALSE, CompiledComponent |-> NoComponent,
             compilationVersion |-> 0]
  /\ recompiles = [t \in 1..MaxLastModified |-> 0]

\* The sequence is given another componentPath: both effects are cleaned up
\* (cancelled = true, clearInterval) and run again; loadFiles sets loading
\* and fetches the new path. files and lastModified stay as they are.
ChangePath(path) ==
  /\ route.mounted
  /\ route.changes < MaxPathChanges
  /\ path # route.componentPath
  /\ Len(fetches) < MaxInFlight
  /\ route' = [route EXCEPT !.componentPath = path, !.effect = @ + 1, !.changes = @ + 1]
  /\ hook' = [hook EXCEPT !.loading = TRUE]
  /\ fetches' = Append(fetches, [Fetch("load", 0) EXCEPT !.path = path,
                                                         !.effect = route.effect + 1])
  /\ UNCHANGED << ext, dyn, recompiles >>
  /\ UNCHANGED << compilerVars, prerenderVars, managerVars, surfaceVars, compositorVars, sseVars, dragVars, timelineVars, projectVars >>

\* The component unmounts: the cleanups run, no effect runs again.
Unmount ==
  /\ route.mounted
  /\ route' = [route EXCEPT !.mounted = FALSE, !.effect = @ + 1]
  /\ UNCHANGED << ext, hook, fetches, dyn, recompiles >>
  /\ UNCHANGED << compilerVars, prerenderVars, managerVars, surfaceVars, compositorVars, sseVars, dragVars, timelineVars, projectVars >>

NextWatcher ==
  \/ ExternalEdit
  \/ PollTick
  \/ \E i \in 1..Len(fetches) : Serve(i)
  \/ \E i \in 1..Len(fetches) : PollComplete(i)
  \/ \E i \in 1..Len(fetches) : LoadComplete(i)

(***************************************************************************)
(* Frame Prerenderer: prerenderAllRemotionElements / prerenderRemotionFrames*)
(* as called by exportProject.                                             *)
(***************************************************************************)
\* Element durations are 1..MaxHalfSeconds half seconds.
MaxHalfSeconds == 3
\* Frame rates are 1..MaxFps.
MaxFps == 2

\* The component registry: the ids getRemotionComponent finds.
RegisteredIds == { "comp" }

Elements ==
  { [componentId |-> c, halfSeconds |-> h] :
      c \in { "comp", "gone" }, h \in 1..MaxHalfSeconds }

ElementLists ==
  { << e >> : e \in Elements } \cup
  { << e1, e2 >> : e1 \in { e \in Elements : e.componentId = "comp" }, e2 \in Elements }

\* Math.ceil(element.duration * fps), the duration counted in half seconds.
TotalFrames(element, fps) == (element.halfSeconds * fps + 1) \div 2

\* What captureContainerToBitmap can do for a frame: resolve to a bitmap,
\* resolve to null (html2canvas failed, caught), or reject (the promise
\* createImageBitmap returned was rejected; it is returned without await, so
\* the catch block does not see it).
CaptureOutcomes == { "bitmap", "null", "rejected" }

IdleExport ==
  [ phase |-> "idle", fps |-> 0, elements |-> <<>>, i |-> 0,
    frameIndex |-> 0, stage |-> "none", totalFrames |-> 0,
    frameCache |-> {}, failed |-> {}, results |-> <<>>, allCaches |-> {},
    progress |-> << 0, 1 >>, cancelled |-> FALSE, outcome |-> "none" ]

\* prerenderAllRemotionElements arrives at element i (or past the last one):
\* prerenderRemotionFrames returns null for an unregistered component.
RECURSIVE EnterElement(_, _)
EnterElement(e, i) ==
  IF i > Len(e.elements)
    THEN [e EXCEPT !.phase = "exporting", !.i = i, !.stage = "none"]
  ELSE LET el == e.elements[i]
           e1 == [e EXCEPT !.i = i, !.progress = << i - 1, Len(e.elements) >>]
       IN IF el.componentId \notin RegisteredIds
            THEN EnterElement(
                   [e1 EXCEPT !.results = Append(e.results,
                                [kind |-> "null", keys |-> {}, failed |-> {}, totalFrames |-> 0])],
                   i + 1)
          ELSE [e1 EXCEPT !.frameIndex = 0, !.stage = "render",
                          !.totalFrames = TotalFrames(el, e.fps),
                          !.frameCache = {}, !.failed = {}]

\* The loop test of prerenderRemotionFrames, line 61.
MoreFrames(frameIndex, totalFrames) == frameIndex < totalFrames

\* exportProject is called: the elements are collected and prerendering starts.
StartExport(elements, fps) ==
  /\ ex.phase = "idle"
  /\ ex' = EnterElement([IdleExport EXCEPT !.phase = "prerender", !.fps = fps,
                                           !.elements = elements], 1)
  /\ cancelRequested' = cancelRequested
  /\ UNCHANGED << compilerVars, watcherVars, managerVars, surfaceVars, compositorVars, routeVars, sseVars, dragVars, timelineVars, projectVars >>

\* The user asks to cancel the export.
RequestCancel ==
  /\ ex.phase \in { "prerender", "exporting" }
  /\ ~cancelRequested
  /\ cancelRequested' = TRUE
  /\ ex' = ex
  /\ UNCHANGED << compilerVars, watcherVars, managerVars, surfaceVars, compositorVars, routeVars, sseVars, dragVars, timelineVars, projectVars >>

\* A frame loop that renders the next frame without awaiting the capture.
RenderFrame_NoAwait ==
  /\ ex.phase = "prerender"
  /\ ex.stage = "render"
  /\ ex' = IF MoreFrames(ex.frameIndex + 1, ex.totalFrames)
             THEN [ex EXCEPT !.frameIndex = ex.frameIndex + 1]
             ELSE [ex EXCEPT !.stage = "capture"]
  /\ cancelRequested' = cancelRequested
  /\ UNCHANGED << compilerVars, watcherVars, managerVars, surfaceVars, compositorVars, routeVars, sseVars, dragVars, timelineVars, projectVars >>

\* renderFrameToContainer: root.render and two animation frames.
RenderFrame ==
  /\ ex.phase = "prerender"
  /\ ex.stage = "render"
  /\ ex' = [ex EXCEPT !.stage = "capture"]
  /\ cancelRequested' = cancelRequested
  /\ UNCHANGED << compilerVars, watcherVars, managerVars, surfaceVars, compositorVars, routeVars, sseVars, dragVars, timelineVars, projectVars >>

\* A progress callback that passes the element's own fraction through.
OverallProgress_PerElement(i, n, k, totalFrames) == << k, totalFrames >>

\* The fraction reported after frame k of element i of n: elementProgress +
\* p * (1 / elements.length) with p = frameIndex / totalFrames, as the pair
\* << numerator, denominator >>.
OverallProgress(i, n, k, totalFrames) ==
  << (i - 1) * totalFrames + k, n * totalFrames >>

\* captureContainerToBitmap settles; the rest of the loop body, the loop test
\* and, after the last frame, the return to prerenderAllRemotionElements.
CaptureFrame(outcome) ==
  /\ ex.phase = "prerender"
  /\ ex.stage = "capture"
  /\ LET k == ex.frameIndex
         cacheK == IF outcome = "bitmap" THEN ex.frameCache \cup { k } ELSE ex.frameCache
         failedK == IF outcome = "bitmap" THEN ex.failed ELSE ex.failed \cup { k }
         n == Len(ex.elements)
     IN IF outcome = "rejected"
          THEN ex' = [ex EXCEPT !.phase = "done", !.stage = "none", !.failed = failedK,
                        !.outcome = "error",
                        !.results = Append(ex.results,
                           [kind |-> "rejected", keys |-> {}, failed |-> failedK,
                            totalFrames |-> ex.totalFrames])]
        ELSE IF MoreFrames(k + 1, ex.totalFrames)
          THEN ex' = [ex EXCEPT !.frameCache = cacheK, !.failed = failedK,
                        !.frameIndex = k + 1, !.stage = "render",
                        !.progress = OverallProgress(ex.i, n, k, ex.totalFrames)]
        ELSE ex' = EnterElement(
                     [ex EXCEPT !.frameCache = cacheK, !.failed = failedK,
                        !.progress = OverallProgress(ex.i, n, k, ex.totalFrames),
                        !.results = Append(ex.results,
                           [kind |-> "map", keys |-> cacheK, failed |-> failedK,
                            totalFrames |-> ex.totalFrames]),
                        !.allCaches = ex.allCaches \cup { ex.i }],
                     ex.i + 1)
  /\ cancelRequested' = cancelRequested
  /\ UNCHANGED << compilerVars, watcherVars, managerVars, surfaceVars, compositorVars, routeVars, sseVars, dragVars, timelineVars, projectVars >>

\* The cancel interval of exportProject, set up once prerendering is over.
CheckCancel ==
  /\ ex.phase = "exporting"
  /\ cancelRequested
  /\ ~ex.cancelled
  /\ ex' = [ex EXCEPT !.cancelled = TRUE]
  /\ cancelRequested' = cancelRequested
  /\ UNCHANGED << compilerVars, watcherVars, managerVars, surfaceVars, compositorVars, routeVars, sseVars, dragVars, timelineVars, projectVars >>

\* exporter.export settles and exportProject returns.
ExportDone ==
  /\ ex.phase = "exporting"
  /\ ex' = [ex EXCEPT !.phase = "done",
                      !.outcome = IF ex.cancelled THEN "cancelled" ELSE "success"]
  /\ cancelRequested' = cancelRequested
  /\ UNCHANGED << compilerVars, watcherVars, managerVars, surfaceVars, compositorVars, routeVars, sseVars, dragVars, timelineVars, projectVars >>

InitPrerender ==
  /\ ex = IdleExport
  /\ cancelRequested = FALSE

NextPrerender ==
  \/ \E els \in ElementLists, fps \in 1..MaxFps : StartExport(els, fps)
  \/ RequestCancel
  \/ RenderFrame
  \/ \E o \in CaptureOutcomes : CaptureFrame(o)
  \/ CheckCancel
  \/ ExportDone

(***************************************************************************)
(* RemotionManager: component events, the component store, the registry.   *)
(***************************************************************************)
\* Component events handled in one behaviour, and loads in flight at once.
MaxEvents == 3
MaxLoads == 2

ComponentNames == { "b1" }

\* componentRegistry.get(name) of a name that has no entry.
Unregistered == << >>

\* What componentStorage.getComponent returns: entryCode and dependencies.
Detail(code, deps) == [entryCode |-> code, dependencies |-> deps]
Dep(p, c) == [path |-> p, code |-> c]

DetailPlain == Detail(Text({}, TRUE, <<Exp("default", Fn1)>>), <<>>)
DetailWithDep ==
  Detail(Text({}, TRUE, <<Req(<<"./", "util">>), Exp("default", Fn2)>>),
         << Dep(<<"util", ".ts">>, Text({}, TRUE, <<Exp("helper", Fn1)>>)) >>)
DetailSyntax == Detail(Text({}, FALSE, <<>>), <<>>)
DetailForbidden == Detail(Text({"eval("}, TRUE, <<Exp("default", Fn1)>>), <<>>)
Details == { DetailPlain, DetailWithDep, DetailSyntax, DetailForbidden }

\* Variant: the bundle carries the time the component was first stored.
BundleOf_StoredAt(componentName, detail, t) ==
  [ id |-> componentName, updatedAt |-> 0,
    files |-> << File(<<componentName, ".tsx">>, detail.entryCode) >> \o
              [ k \in 1..Len(detail.dependencies) |->
                  File(detail.dependencies[k].path, detail.dependencies[k].code) ],
    entryPoint |-> <<componentName, ".tsx">>,
    dependencies |-> <<>>,
    status |-> "draft", errors |-> <<>> ]

\* The bundle loadAndRegisterComponent builds from a detail.
BundleOf(componentName, detail, t) ==
  [ id |-> componentName, updatedAt |-> t,
    files |-> << File(<<componentName, ".tsx">>, detail.entryCode) >> \o
              [ k \in 1..Len(detail.dependencies) |->
                  File(detail.dependencies[k].path, detail.dependencies[k].code) ],
    entryPoint |-> <<componentName, ".tsx">>,
    dependencies |-> <<>>,
    status |-> "draft", errors |-> <<>> ]

\* moduleCompiler.compile(bundle) run to its end against cache c at time t:
\* the result, the cache it leaves, and the bundle object as the call
\* leaves it.  n names the new CompiledModule.
compile(b, c, t, n) ==
  LET cached == c[b.id]
      fc == FileContents(b.files)
      mainFileName == StripExt(b.entryPoint)
      m == RunPass(EnterModule(NewPass(fc), mainFileName))
      Component == IF m.status = "returned"
                     THEN ExtractComponent(m.heap[m.mainExports])
                     ELSE NoComponent
      compiled == [ obj |-> n, bundleId |-> b.id, compiledAt |-> t,
                    component |-> Component, src |-> b ]
      failed == [kind |-> "Error", module |-> None, cache |-> c, executed |-> FALSE,
                 errors |-> <<>>, bundle |-> b]
  IN IF cached # None /\ CacheFresh(cached, b)
       THEN [failed EXCEPT !.kind = "ok", !.module = cached]
     ELSE IF validate(b) # <<>>
       THEN [failed EXCEPT !.kind = "CompileException", !.errors = validate(b)]
     ELSE IF ~HasCode(fc, mainFileName) THEN failed
     ELSE IF Component = NoComponent THEN [failed EXCEPT !.executed = TRUE]
     ELSE [failed EXCEPT !.kind = "ok", !.module = compiled,
                         !.cache = [c EXCEPT ![b.id] = compiled],
                         !.executed = TRUE]

\* A loadAndRegisterComponent call in flight: `got` is what getComponent
\* resolved with ("pending" before it did).
Load(componentName, ev) ==
  [name |-> componentName, event |-> ev, got |-> "pending", detail |-> None,
   trigger |-> ev]

\* Variant: the element is inserted whether or not the load succeeded, and
\* a failure is passed on to the caller.
AfterLoad_InsertsAnyway(event, loaded) ==
  [ inserted |-> event = "created", notified |-> loaded, rejected |-> ~loaded ]

\* What the handler of an event does once `await loadAndRegisterComponent`
\* has returned (loaded) or thrown: onComponentCreated adds the component to
\* the timeline and notifies, onComponentUpdated notifies; their catch
\* blocks log the error.
AfterLoad(event, loaded) ==
  [ inserted |-> loaded /\ event = "created", notified |-> loaded, rejected |-> FALSE ]

\* The component store changes and the manager is told: onComponentCreated.
onComponentCreated(componentName, d) ==
  /\ mgr.events < MaxEvents
  /\ Len(mgr.loads) < MaxLoads
  /\ store[componentName] = None
  /\ store' = [store EXCEPT ![componentName] = d]
  /\ mgr' = [mgr EXCEPT !.events = @ + 1,
                        !.loads = Append(@, Load(componentName, "created")),
                        !.deleted[componentName] = FALSE,
                        !.before[componentName] = cache[componentName]]
  /\ UNCHANGED << now, cache, call, pass >>
  /\ UNCHANGED << watcherVars, prerenderVars, surfaceVars, compositorVars, routeVars, sseVars, dragVars, timelineVars, projectVars >>

\* onComponentUpdated up to its await: clearCache, then the load starts.
onComponentUpdated(componentName, d) ==
  /\ mgr.events < MaxEvents
  /\ Len(mgr.loads) < MaxLoads
  /\ store[componentName] # None
  /\ store[componentName] # d
  /\ store' = [store EXCEPT ![componentName] = d]
  /\ cache' = CacheAfterClear(Given(componentName))
  /\ mgr' = [mgr EXCEPT !.events = @ + 1,
                        !.loads = Append(@, Load(componentName, "updated")),
                        !.deleted[componentName] = FALSE,
                        !.before[componentName] = cache[componentName]]
  /\ UNCHANGED << now, call, pass >>
  /\ UNCHANGED << watcherVars, prerenderVars, surfaceVars, compositorVars, routeVars, sseVars, dragVars, timelineVars, projectVars >>

\* onComponentDeleted: unregister, clearCache, remove the timeline elements.
onComponentDeleted(componentName) ==
  /\ mgr.events < MaxEvents
  /\ store[componentName] # None
  /\ store' = [store EXCEPT ![componentName] = None]
  /\ cache' = CacheAfterClear(Given(componentName))
  /\ mgr' = [mgr EXCEPT !.events = @ + 1,
                        !.registry[componentName] = Unregistered,
                        !.timeline[componentName] = 0,
                        !.deleted[componentName] = TRUE]
  /\ UNCHANGED << now, call, pass >>
  /\ UNCHANGED << watcherVars, prerenderVars, surfaceVars, compositorVars, routeVars, sseVars, dragVars, timelineVars, projectVars >>

\* componentStorage.getComponent resolves (with the stored detail or null)
\* or rejects.
StorageAnswer(i, rejects) ==
  /\ i \in 1..Len(mgr.loads)
  /\ mgr.loads[i].got = "pending"
  /\ LET d == store[mgr.loads[i].name]
     IN mgr' = [mgr EXCEPT !.loads[i].got =
                             IF rejects THEN "rejected"
                             ELSE IF d = None THEN "null" ELSE "detail",
                           !.loads[i].detail = IF rejects THEN None ELSE d]
  /\ UNCHANGED << store, now, cache, call, pass >>
  /\ UNCHANGED << watcherVars, prerenderVars, surfaceVars, compositorVars, routeVars, sseVars, dragVars, timelineVars, projectVars >>

\* loadAndRegisterComponent after `await getComponent`, and the rest of the
\* event handler: compile, register, and for a created component add it to
\* the timeline.  A failure is caught and logged by the handler.
LoadResume(i) ==
  /\ i \in 1..Len(mgr.loads)
  /\ mgr.loads[i].got # "pending"
  /\ LET l == mgr.loads[i]
         rest == RemoveAt(mgr.loads, i)
         r == compile(BundleOf(l.name, l.detail, now), cache, now, mgr.compiles + 1)
         failure == [name |-> l.name, event |-> l.event, step |-> "load",
                     before |-> mgr.before[l.name], registered |-> mgr.registry[l.name],
                     raised |-> "Error", errors |-> <<>>, bundle |-> None,
                     hadEntry |-> cache[l.name] # None,
                     hit |-> FALSE, trigger |-> l.trigger,
                     after |-> mgr.registry[l.name],
                     handler |-> AfterLoad(l.event, FALSE)]
     IN IF l.got # "detail"
          THEN /\ mgr' = [mgr EXCEPT !.loads = rest, !.last = failure,
                                     !.timeline[l.name] =
                                        IF failure.handler.inserted THEN @ + 1 ELSE @]
               /\ cache' = cache
        ELSE IF r.kind # "ok"
          THEN /\ mgr' = [mgr EXCEPT !.loads = rest,
                                     !.timeline[l.name] =
                                        IF failure.handler.inserted THEN @ + 1 ELSE @,
                                     !.last = [failure EXCEPT !.step = "compile",
                                                 !.raised = r.kind,
                                                 !.errors = r.errors,
                                                 !.bundle = r.bundle]]
               /\ cache' = r.cache
        ELSE /\ cache' = r.cache
             /\ mgr' = [mgr EXCEPT !.loads = rest,
                          !.compiles = @ + 1,
                          !.registry[l.name] = r.module.component,
                          !.timeline[l.name] =
                             IF AfterLoad(l.event, TRUE).inserted THEN @ + 1 ELSE @,
                          !.last = [failure EXCEPT !.step = "ok", !.raised = "",
                                                    !.bundle = r.bundle,
                                                    !.hit = ~r.executed,
                                                    !.after = r.module.component,
                                                    !.handler = AfterLoad(l.event, TRUE)]]
  /\ UNCHANGED << store, now, call, pass >>
  /\ UNCHANGED << watcherVars, prerenderVars, surfaceVars, compositorVars, routeVars, sseVars, dragVars, timelineVars, projectVars >>

\* Date.now() advances between the manager's steps.
ManagerTick ==
  /\ now < MaxTime
  /\ now' = now + 1
  /\ UNCHANGED << cache, call, pass, store, mgr >>
  /\ UNCHANGED << watcherVars, prerenderVars, surfaceVars, compositorVars, routeVars, sseVars, dragVars, timelineVars, projectVars >>

NoLast == [name |-> "", event |-> "", step |-> "", before |-> None,
           registered |-> Unregistered, raised |-> "", errors |-> <<>>,
           bundle |-> None, hadEntry |-> FALSE, hit |-> FALSE, trigger |-> "",
           after |-> Unregistered,
           handler |-> [inserted |-> FALSE, notified |-> FALSE, rejected |-> FALSE]]

InitManager ==
  /\ store = [n \in ComponentNames |-> None]
  /\ mgr = [ registry |-> [n \in ComponentNames |-> Unregistered],
             timeline |-> [n \in ComponentNames |-> 0],
             loads |-> << >>, events |-> 0, compiles |-> 0,
             deleted |-> [n \in ComponentNames |-> FALSE],
             before |-> [n \in ComponentNames |-> None],
             last |-> NoLast ]

\* ComponentSyncService.handleAgentFileEvent for a file of component
\* componentName that the agent wrote over (file.updated): the switch sends
\* it to onComponentCreated, which starts its load.
handleAgentFileUpdated(componentName, d) ==
  /\ mgr.events < MaxEvents
  /\ Len(mgr.loads) < MaxLoads
  /\ store[componentName] # None
  /\ store[componentName] # d
  /\ store' = [store EXCEPT ![componentName] = d]
  /\ mgr' = [mgr EXCEPT !.events = @ + 1,
                        !.loads = Append(@, [Load(componentName, "created")
                                               EXCEPT !.trigger = "file.updated"]),
                        !.deleted[componentName] = FALSE,
                        !.before[componentName] = cache[componentName]]
  /\ UNCHANGED << now, cache, call, pass >>
  /\ UNCHANGED << watcherVars, prerenderVars, surfaceVars, compositorVars, routeVars, sseVars, dragVars, timelineVars, projectVars >>

\* The manager with the agent's file events as well.
NextSync ==
  \/ \E n \in ComponentNames, d \in Details : handleAgentFileUpdated(n, d)
  \/ \E n \in ComponentNames, d \in Details : onComponentCreated(n, d)
  \/ \E n \in ComponentNames, d \in Details : onComponentUpdated(n, d)
  \/ \E n \in ComponentNames : onComponentDeleted(n)
  \/ \E i \in 1..MaxLoads, rejects \in BOOLEAN : StorageAnswer(i, rejects)
  \/ \E i \in 1..MaxLoads : LoadResume(i)
  \/ ManagerTick

NextManager ==
  \/ \E n \in ComponentNames, d \in Details : onComponentCreated(n, d)
  \/ \E n \in ComponentNames, d \in Details : onComponentUpdated(n, d)
  \/ \E n \in ComponentNames : onComponentDeleted(n)
  \/ \E i \in 1..MaxLoads, rejects \in BOOLEAN : StorageAnswer(i, rejects)
  \/ \E i \in 1..MaxLoads : LoadResume(i)
  \/ ManagerTick

(***************************************************************************)
(* Rendering surfaces and their error boundaries.                          *)
(***************************************************************************)
\* Successful recompiles one surface sees in one behaviour.
MaxReplacements == 2

Surfaces == { "DynamicComponentFromPath", "DynamicComponent", "RemotionOverlay" }

\* The surfaces that give their error boundary a key that changes with each
\* successful recompile: `<ErrorBoundary key={compilationVersion}>`.
KeyedSurfaces == { "DynamicComponentFromPath" }

\* A surface before its first compile: nothing rendered, boundary clean.
\* Component is the number of the compiled component rendered (0: none),
\* throws says whether that component throws while rendering, error and
\* errorOf are the boundary's state and the component whose error it holds.
Unmounted ==
  [Component |-> 0, throws |-> FALSE, key |-> 0, error |-> FALSE, errorOf |-> 0]

\* React reconciles the boundary after a replacement: a changed key mounts
\* a new boundary (state { error: null }), the same key keeps the instance
\* and its state.
Reconcile(b, newKey) ==
  IF newKey # b.key
    THEN [b EXCEPT !.key = newKey, !.error = FALSE, !.errorOf = 0]
    ELSE b

\* A successful recompile replaces the component a surface renders.
Replace(s, willThrow) ==
  /\ surface[s].Component < MaxReplacements
  /\ LET b == surface[s]
         newKey == IF s \in KeyedSurfaces THEN b.key + 1 ELSE b.key
     IN surface' = [surface EXCEPT ![s] =
                      [Reconcile(b, newKey) EXCEPT !.Component = b.Component + 1,
                                                   !.throws = willThrow]]
  /\ UNCHANGED << compilerVars, watcherVars, prerenderVars, managerVars, compositorVars, routeVars, sseVars, dragVars, timelineVars, projectVars >>

\* The rendered component throws; getDerivedStateFromError stores the error.
RenderThrows(s) ==
  /\ surface[s].Component # 0
  /\ surface[s].throws
  /\ ~surface[s].error
  /\ surface' = [surface EXCEPT ![s].error = TRUE, ![s].errorOf = surface[s].Component]
  /\ UNCHANGED << compilerVars, watcherVars, prerenderVars, managerVars, compositorVars, routeVars, sseVars, dragVars, timelineVars, projectVars >>

\* What the surface shows: the boundary's render().
Shows(s) ==
  IF surface[s].Component = 0 THEN "nothing"
  ELSE IF surface[s].error THEN "fallback"
  ELSE "component"

InitSurfaces == surface = [s \in Surfaces |-> Unmounted]

NextSurfaces ==
  \/ \E s \in Surfaces, willThrow \in BOOLEAN : Replace(s, willThrow)
  \/ \E s \in Surfaces : RenderThrows(s)

(***************************************************************************)
(* Compositor: RemotionNode.render and syncRemotionTime.                   *)
(***************************************************************************)
\* Times are counted in quarter seconds: the clock runs over 0..MaxClock and
\* trimStart over 0..MaxTrim.
MaxClock == 8
MaxTrim == 2

\* A frameCache that was never set.
NoFrameCache == { -1 }

\* syncRemotionTime: relativeTime, isOutRange and
\* Math.max(0, Math.floor((relativeTime + trimStart) * fps)), with the
\* times in quarter seconds and the duration in half seconds.
syncRemotionTime(currentTime, startTime, halfSeconds, trimStart, fps) ==
  LET relativeTime == currentTime - startTime
      internalTime == relativeTime + trimStart
      frame == (internalTime * fps) \div 4
  IN [ frame |-> IF frame < 0 THEN 0 ELSE frame, fps |-> fps,
       relativeTime |-> relativeTime,
       isOutRange |-> relativeTime < 0 \/ relativeTime >= 2 * halfSeconds ]

\* The frame maps a node can be given: what prerenderRemotionFrames returned
\* for the element, complete or with one frame whose capture gave no bitmap.
FrameMaps(element, fps) ==
  LET all == 0..(TotalFrames(element, fps) - 1)
  IN { all } \cup { all \ { k } : k \in all }

AllFrameMaps == UNION { FrameMaps(e, f) : e \in Elements, f \in 1..MaxFps }

NodeParams ==
  { [ element |-> e, startTime |-> st, trimStart |-> tr, opacity |-> op, fps |-> f ] :
      e \in { el \in Elements : el.componentId = "comp" },
      st \in { 0, 2 }, tr \in 0..MaxTrim, op \in { -1, 50, 100 }, f \in 1..MaxFps }

\* The 2D context: the stack of saved states, the current globalAlpha (in
\* percent) and the frames drawn so far on the current picture.
FreshCanvas == [ stack |-> << >>, globalAlpha |-> 100, drawn |-> {} ]

NoRender == [ time |-> -1, frame |-> -1, isOutRange |-> FALSE, drew |-> -1,
              returned |-> FALSE, before |-> FreshCanvas ]

\* render() that restores the context only after drawing a frame.
Render_RestoreAfterDraw(nd, time) ==
  LET p == nd.params
      sync == syncRemotionTime(time, p.startTime, p.element.halfSeconds, p.trimStart, p.fps)
      c0 == nd.canvas
      c1 == [c0 EXCEPT !.stack = Append(c0.stack, c0.globalAlpha)]
      c2 == IF p.opacity # -1 THEN [c1 EXCEPT !.globalAlpha = p.opacity] ELSE c1
      cachedFrame == nd.frameCache # NoFrameCache /\ sync.frame \in nd.frameCache
      c3 == IF cachedFrame THEN [c2 EXCEPT !.drawn = @ \cup { sync.frame }] ELSE c2
      c4 == [c3 EXCEPT !.globalAlpha = c3.stack[Len(c3.stack)],
                       !.stack = SubSeq(c3.stack, 1, Len(c3.stack) - 1)]
      res == [ time |-> time, frame |-> sync.frame, isOutRange |-> sync.isOutRange,
               drew |-> IF ~sync.isOutRange /\ cachedFrame THEN sync.frame ELSE -1,
               returned |-> TRUE, before |-> c0 ]
  IN IF sync.isOutRange THEN [nd EXCEPT !.last = res]
     ELSE [nd EXCEPT !.canvas = IF cachedFrame THEN c4 ELSE c3, !.last = res]

\* RemotionNode.render: sync the time; out of range returns; else save the
\* context, set the opacity, draw the cached frame if there is one, restore.
Render(nd, time) ==
  LET p == nd.params
      sync == syncRemotionTime(time, p.startTime, p.element.halfSeconds, p.trimStart, p.fps)
      c0 == nd.canvas
      c1 == [c0 EXCEPT !.stack = Append(c0.stack, c0.globalAlpha)]
      c2 == IF p.opacity # -1 THEN [c1 EXCEPT !.globalAlpha = p.opacity] ELSE c1
      cachedFrame == nd.frameCache # NoFrameCache /\ sync.frame \in nd.frameCache
      c3 == IF cachedFrame THEN [c2 EXCEPT !.drawn = @ \cup { sync.frame }] ELSE c2
      c4 == [c3 EXCEPT !.globalAlpha = c3.stack[Len(c3.stack)],
                       !.stack = SubSeq(c3.stack, 1, Len(c3.stack) - 1)]
      res == [ time |-> time, frame |-> sync.frame, isOutRange |-> sync.isOutRange,
               drew |-> IF ~sync.isOutRange /\ cachedFrame THEN sync.frame ELSE -1,
               returned |-> TRUE, before |-> c0 ]
  IN IF sync.isOutRange THEN [nd EXCEPT !.last = res]
     ELSE [nd EXCEPT !.canvas = c4, !.last = res]

\* A RemotionNode is built for an element of the timeline.
NewRemotionNode(p) ==
  /\ node.params = None
  /\ node' = [node EXCEPT !.params = p]
  /\ UNCHANGED << compilerVars, watcherVars, prerenderVars, managerVars, surfaceVars, routeVars, sseVars, dragVars, timelineVars, projectVars >>

\* setFrameCache(cache): export hands the node its prerendered frames.
setFrameCache(keys) ==
  /\ node.params # None
  /\ node.frameCache = NoFrameCache
  /\ keys \in FrameMaps(node.params.element, node.params.fps)
  /\ node' = [node EXCEPT !.frameCache = keys]
  /\ UNCHANGED << compilerVars, watcherVars, prerenderVars, managerVars, surfaceVars, routeVars, sseVars, dragVars, timelineVars, projectVars >>

\* The renderer clears the picture and renders the node at a time.
RenderNode(time) ==
  /\ node.params # None
  /\ node' = Render([node EXCEPT !.canvas.drawn = {}], time)
  /\ UNCHANGED << compilerVars, watcherVars, prerenderVars, managerVars, surfaceVars, routeVars, sseVars, dragVars, timelineVars, projectVars >>

InitCompositor ==
  node = [ params |-> None, frameCache |-> NoFrameCache, canvas |-> FreshCanvas,
           last |-> NoRender ]

NextCompositor ==
  \/ \E p \in NodeParams : NewRemotionNode(p)
  \/ \E keys \in AllFrameMaps : setFrameCache(keys)
  \/ \E time \in 0..MaxClock : RenderNode(time)

(***************************************************************************)
(* Module resolution over larger file sets.                                *)
(***************************************************************************)
\* index imports B and C, which both import D.
FilesDiamond ==
  << File(<<"index", ".tsx">>,
          Text({}, TRUE, <<Req(<<"./", "B">>), Req(<<"./", "C">>), Exp("default", Fn1)>>)),
     File(<<"B", ".tsx">>, Text({}, TRUE, <<Req(<<"./", "D">>), Exp("b", Fn2)>>)),
     File(<<"C", ".tsx">>, Text({}, TRUE, <<Req(<<"./", "D", ".tsx">>), Exp("c", Fn2)>>)),
     File(<<"D", ".ts">>, Text({}, TRUE, <<Exp("d", Fn2)>>)) >>

\* sub/widget.tsx imports "./x"; there is an x.ts next to it and another one
\* at the top.
FilesSubdir ==
  << File(<<"index", ".tsx">>,
          Text({}, TRUE, <<Req(<<"./", "sub", "/", "widget">>), Exp("default", Fn1)>>)),
     File(<<"sub", "/", "widget", ".tsx">>,
          Text({}, TRUE, <<Req(<<"./", "x">>), Exp("default", Fn2)>>)),
     File(<<"sub", "/", "x", ".ts">>, Text({}, TRUE, <<Exp("where", <<"str">>)>>)),
     File(<<"x", ".ts">>, Text({}, TRUE, <<Exp("where", <<"obj">>)>>)) >>

\* Imports of a file the bundle does not have and of modules that are not
\* built in.
FilesUnresolved ==
  << File(<<"index", ".tsx">>,
          Text({}, TRUE, <<Req(<<"./", "missing">>), Req(<<"lodash">>),
                           Req(<<"framer-motion">>), Req(<<"/", "abs">>),
                           Req(<<"remotion">>), Exp("default", Fn1)>>)) >>

\* Entry modules by what they export as default and as Component.
FilesExporting(d, c) ==
  << File(<<"index", ".tsx">>,
          Text({}, TRUE,
               (IF d = <<>> THEN <<>> ELSE <<Exp("default", d)>>) \o
               (IF c = <<>> THEN <<>> ELSE <<Exp("Component", c)>>))) >>

ExportedValues ==
  { <<>>, <<"null">>, Fn1, <<"str">>, <<"obj">>, <<"wrap">>, <<"wrap", "fn2">>,
    <<"wrap", "wrap", "fn2">>, <<"wrap", "str">> }

PassShapes ==
  { Shape(FilesDiamond, Index, <<>>),
    Shape(FilesCycle, Index, <<>>),
    Shape(FilesSubdir, Index, <<>>),
    Shape(FilesUnresolved, Index, <<>>),
    Shape(FilesThrow, Index, <<>>) } \cup
  { Shape(FilesExporting(d, c), Index, <<>>) :
      d \in ExportedValues, c \in { <<>>, Fn2, <<"wrap", "fn1">> } }

PassBundles == { Bundle("b1", 0, sh) : sh \in PassShapes }

NextPass ==
  \/ \E b \in PassBundles : CompileBegin(b)
  \/ CompileResume
  \/ PassStep
  \/ CompileFinish

(***************************************************************************)
(* AIAgentService.sendMessage: reading the SSE response.                   *)
(***************************************************************************)
\* The server sends at most MaxSseEvents events in one response.
MaxSseEvents == 2

\* A text is a sequence of tokens: "\n", the line heads "event: " and
\* "data: ", an event name, or the JSON text of a payload.
NL == "\n"
EventNames == { "message.delta", "component.created" }
Json(n) == <<"json", n>>

\* send(event): `event: ${event.event}\ndata: ${JSON.stringify(event.data)}\n\n`.
send(event) == << "event: ", event.event, NL, "data: ", Json(event.data), NL, NL >>

RECURSIVE Encode(_)
Encode(events) ==
  IF events = << >> THEN << >> ELSE send(Head(events)) \o Encode(Tail(events))

\* The event lists a response can carry; the payloads are numbered.
RECURSIVE EventLists(_)
EventLists(n) ==
  IF n = 0 THEN { << >> }
  ELSE LET shorter == EventLists(n - 1)
       IN shorter \cup
          { Append(es, [event |-> e, data |-> Len(es) + 1]) :
              es \in { x \in shorter : Len(x) = n - 1 }, e \in EventNames }

\* buffer.split("\n"): the pieces between the line feeds, the last one being
\* what follows the last line feed.
RECURSIVE Split(_, _, _)
Split(text, line, lines) ==
  IF text = << >> THEN Append(lines, line)
  ELSE IF Head(text) = NL THEN Split(Tail(text), << >>, Append(lines, line))
  ELSE Split(Tail(text), Append(line, Head(text)), lines)

startsWith(line, head) == line # << >> /\ line[1] = head

\* The `for (const line of lines)` loop: p is [currentEvent, dispatched].
RECURSIVE ParseLines(_, _)
ParseLines(lines, p) ==
  IF lines = << >> THEN p
  ELSE LET line == Head(lines)
       IN IF startsWith(line, "event: ")
            THEN ParseLines(Tail(lines), [p EXCEPT !.currentEvent = Tail(line)])
          ELSE IF startsWith(line, "data: ") /\ p.currentEvent # << >>
            THEN ParseLines(Tail(lines),
                   [p EXCEPT !.dispatched = Append(@, [event |-> p.currentEvent,
                                                        data |-> Tail(line)]),
                             !.currentEvent = << >>])
          ELSE ParseLines(Tail(lines), p)

\* One turn of the `while (true)` loop for a chunk that was read.
ParseChunk(st, value) ==
  LET lines == Split(st.buffer \o value, << >>, << >>)
      p == ParseLines(SubSeq(lines, 1, Len(lines) - 1),
                      [currentEvent |-> << >>, dispatched |-> st.dispatched])
  IN [st EXCEPT !.buffer = lines[Len(lines)], !.dispatched = p.dispatched]

InitSse ==
  sse = [phase |-> "idle", sent |-> << >>, rest |-> << >>, buffer |-> << >>,
         dispatched |-> << >>]

\* sendMessage posts the request; the server answers with a stream of events.
sendMessage(events) ==
  /\ sse.phase = "idle"
  /\ sse' = [sse EXCEPT !.phase = "reading", !.sent = events, !.rest = Encode(events)]
  /\ UNCHANGED << compilerVars, watcherVars, prerenderVars, managerVars, surfaceVars, compositorVars, routeVars, dragVars, timelineVars, projectVars >>

\* reader.read() resolves with the next k tokens of the stream.
ReadChunk(k) ==
  /\ sse.phase = "reading"
  /\ k \in 1..Len(sse.rest)
  /\ sse' = [ParseChunk(sse, SubSeq(sse.rest, 1, k))
               EXCEPT !.rest = SubSeq(sse.rest, k + 1, Len(sse.rest))]
  /\ UNCHANGED << compilerVars, watcherVars, prerenderVars, managerVars, surfaceVars, compositorVars, routeVars, dragVars, timelineVars, projectVars >>

\* reader.read() resolves with done: sendMessage returns.
ReadDone ==
  /\ sse.phase = "reading"
  /\ sse.rest = << >>
  /\ sse' = [sse EXCEPT !.phase = "returned"]
  /\ UNCHANGED << compilerVars, watcherVars, prerenderVars, managerVars, surfaceVars, compositorVars, routeVars, dragVars, timelineVars, projectVars >>

NextSse ==
  \/ \E events \in EventLists(MaxSseEvents) : sendMessage(events)
  \/ \E k \in 1..(7 * MaxSseEvents) : ReadChunk(k)
  \/ ReadDone

(***************************************************************************)
(* Dragging a Remotion element: RemotionElementWrapper,                    *)
(* updateRemotionElement and UpdateRemotionElementCommand.                 *)
(***************************************************************************)
\* The element's position (one coordinate) ranges over 0..MaxPos.
MaxPos == 2
\* Commands pushed to the history in one behaviour.
MaxCommands == 2

NoDrag == [none |-> TRUE]

\* UpdateRemotionElementCommand.execute: save a copy of the tracks, then set
\* the element's transform. The command is [savedState].
Execute(tracks, transform) == [tracks |-> transform, command |-> [savedState |-> tracks]]

\* UpdateRemotionElementCommand.undo: put the saved tracks back.
Undo(command) == command.savedState

\* updateRemotionElement: with pushHistory the command goes through the
\* command manager, which executes it and pushes it on the history;
\* without, it is executed and dropped.
updateRemotionElement(d, transform, pushHistory) ==
  LET e == Execute(d.tracks, transform)
  IN [d EXCEPT !.tracks = e.tracks,
               !.history = IF pushHistory
                             THEN Append(@, [savedState |-> e.command.savedState,
                                             began |-> d.began])
                             ELSE @]

InitDrag ==
  drag = [tracks |-> 0, element |-> 0, dragStart |-> NoDrag, history |-> << >>,
          began |-> 0]

\* handleMouseDown: remember where the element is.
MouseDown ==
  /\ drag.dragStart = NoDrag
  /\ Len(drag.history) < MaxCommands
  /\ drag' = [drag EXCEPT !.dragStart = [posX |-> drag.element],
                          !.began = drag.tracks]
  /\ UNCHANGED << compilerVars, watcherVars, prerenderVars, managerVars, surfaceVars, compositorVars, routeVars, sseVars, timelineVars, projectVars >>

\* handleMouseMove: move the element without pushing history; the wrapper
\* renders again with the moved element before the next event.
MouseMove(pos) ==
  /\ drag.dragStart # NoDrag
  /\ pos # drag.tracks
  /\ LET d == updateRemotionElement(drag, pos, FALSE)
     IN drag' = [d EXCEPT !.element = d.tracks]
  /\ UNCHANGED << compilerVars, watcherVars, prerenderVars, managerVars, surfaceVars, compositorVars, routeVars, sseVars, timelineVars, projectVars >>

\* handleMouseUp: commit to the history when the position changed.
MouseUp ==
  /\ drag.dragStart # NoDrag
  /\ LET d == IF drag.element # drag.dragStart.posX
                THEN updateRemotionElement(drag, drag.element, TRUE)
                ELSE drag
     IN drag' = [d EXCEPT !.dragStart = NoDrag, !.element = d.tracks]
  /\ UNCHANGED << compilerVars, watcherVars, prerenderVars, managerVars, surfaceVars, compositorVars, routeVars, sseVars, timelineVars, projectVars >>

\* The author undoes the last command.
UndoLast ==
  /\ drag.dragStart = NoDrag
  /\ drag.history # << >>
  /\ LET command == drag.history[Len(drag.history)]
         t == Undo(command)
     IN drag' = [drag EXCEPT !.tracks = t, !.element = t,
                             !.history = SubSeq(@, 1, Len(@) - 1)]
  /\ UNCHANGED << compilerVars, watcherVars, prerenderVars, managerVars, surfaceVars, compositorVars, routeVars, sseVars, timelineVars, projectVars >>

NextDrag ==
  \/ MouseDown
  \/ \E pos \in 0..MaxPos : MouseMove(pos)
  \/ MouseUp
  \/ UndoLast

(***************************************************************************)
(* The timeline's tracks and removeComponentFromTimeline.                  *)
(***************************************************************************)
\* A project has at most MaxTracks tracks of at most MaxTrackElements
\* elements each.
MaxTracks == 2
MaxTrackElements == 2

\* The components elements can use; a media element uses none ("").
UsedComponents == { "b1", "b2" }

SeqsUpTo(S, n) == UNION { [1..k -> S] : k \in 0..n }

\* The tracks of a project: remotion tracks hold elements that name a
\* component, video tracks hold media elements. Ids are given by position.
TrackShapes ==
  { [type |-> "remotion", uses |-> u] : u \in SeqsUpTo(UsedComponents, MaxTrackElements) }
  \cup { [type |-> "video", uses |-> u] : u \in SeqsUpTo({ "" }, MaxTrackElements) }

TracksOf(shapes) ==
  [ t \in 1..Len(shapes) |->
      [ id |-> t, type |-> shapes[t].type,
        elements |-> [ e \in 1..Len(shapes[t].uses) |->
                         [id |-> <<t, e>>, componentId |-> shapes[t].uses[e]] ] ] ]

Projects == { TracksOf(sh) : sh \in SeqsUpTo(TrackShapes, MaxTracks) }

\* editor.timeline.deleteElements for one element: the element is taken out
\* of its track.
deleteElements(tracks, trackId, elementId) ==
  [ t \in 1..Len(tracks) |->
      IF tracks[t].id # trackId THEN tracks[t]
      ELSE LET keep(el) == el.id # elementId
           IN [tracks[t] EXCEPT !.elements = SelectSeq(@, keep)] ]

RECURSIVE DeleteEach(_, _, _)
DeleteEach(tracks, trackId, elementsToRemove) ==
  IF elementsToRemove = << >> THEN tracks
  ELSE DeleteEach(deleteElements(tracks, trackId, Head(elementsToRemove).id),
                  trackId, Tail(elementsToRemove))

RECURSIVE RemoveFromTracks(_, _, _, _)

\* Variant: only the first element found in a track is removed.
RemoveFromTracks_FirstOnly(current, tracks, k, componentName) ==
  IF k > Len(tracks) THEN current
  ELSE IF tracks[k].type # "remotion"
    THEN RemoveFromTracks(current, tracks, k + 1, componentName)
  ELSE LET uses(el) == el.componentId = componentName
           elementsToRemove == SelectSeq(tracks[k].elements, uses)
           first == IF elementsToRemove = << >> THEN << >>
                    ELSE << Head(elementsToRemove) >>
       IN RemoveFromTracks(DeleteEach(current, tracks[k].id, first),
                           tracks, k + 1, componentName)

\* The loop of removeComponentFromTimeline over the tracks read at its
\* start, from track k on; `current` is what the timeline holds by then.
RemoveFromTracks(current, tracks, k, componentName) ==
  IF k > Len(tracks) THEN current
  ELSE IF tracks[k].type # "remotion"
    THEN RemoveFromTracks(current, tracks, k + 1, componentName)
  ELSE LET uses(el) == el.componentId = componentName
           elementsToRemove == SelectSeq(tracks[k].elements, uses)
       IN RemoveFromTracks(DeleteEach(current, tracks[k].id, elementsToRemove),
                           tracks, k + 1, componentName)

removeComponentFromTimeline(tracks, componentName) ==
  RemoveFromTracks(tracks, tracks, 1, componentName)

NoTimeline == tl = [phase |-> "closed", tracks |-> << >>, before |-> << >>, removed |-> ""]

\* A project is opened: the timeline holds its tracks.
OpenProject(tracks) ==
  /\ tl.phase = "closed"
  /\ tl' = [tl EXCEPT !.phase = "open", !.tracks = tracks]
  /\ UNCHANGED << compilerVars, watcherVars, prerenderVars, managerVars, surfaceVars, compositorVars, routeVars, sseVars, dragVars, projectVars >>

\* onComponentDeleted reaches removeComponentFromTimeline(componentName).
RemoveComponent(componentName) ==
  /\ tl.phase = "open"
  /\ tl' = [tl EXCEPT !.tracks = removeComponentFromTimeline(tl.tracks, componentName),
                      !.before = tl.tracks, !.removed = componentName]
  /\ UNCHANGED << compilerVars, watcherVars, prerenderVars, managerVars, surfaceVars, compositorVars, routeVars, sseVars, dragVars, projectVars >>

NextTimeline ==
  \/ \E tracks \in Projects : OpenProject(tracks)
  \/ \E n \in UsedComponents : RemoveComponent(n)

(***************************************************************************)
(* RemotionManager.loadProjectComponents.                                  *)
(***************************************************************************)
\* listComponents returns at most MaxListed components.
MaxListed == 2

ProjectNames == { "c1", "c2", "c3" }

\* The lists listComponents can resolve with: distinct names.
ComponentLists ==
  { l \in SeqsUpTo(ProjectNames, MaxListed) :
      \A i, j \in 1..Len(l) : i # j => l[i] # l[j] }

\* What getComponent does for one component: it rejects, resolves with null,
\* or resolves with a detail.
Rejects == [rejects |-> TRUE]
StorageOutcomes == { Rejects, None } \cup Details

\* loadAndRegisterComponent(componentName) run to its end against the
\* entries p holds: registered, or thrown.
loadAndRegisterComponent(p, componentName, outcome) ==
  IF outcome \in { Rejects, None }
    THEN [p EXCEPT !.thrown = TRUE]
  ELSE LET r == compile(BundleOf(componentName, outcome, now), p.cache, now,
                        Len(p.attempted) + 1)
       IN IF r.kind # "ok"
            THEN [p EXCEPT !.cache = r.cache, !.thrown = TRUE]
          ELSE [p EXCEPT !.cache = r.cache, !.thrown = FALSE,
                         !.registry[componentName] = r.module.component]

\* `this.notify()` after the outer try/catch, and the return.
NotifyAndReturn(p) == [p EXCEPT !.phase = "returned", !.notified = @ + 1]

\* Variant: no try/catch around the load of one component; its error ends
\* the loop in the outer catch.
LoopStep_NoInnerCatch(p, outcome) ==
  LET name == p.list[p.i]
      q == [loadAndRegisterComponent(p, name, outcome)
              EXCEPT !.attempted = Append(@, name), !.answers[name] = outcome]
      next == [q EXCEPT !.i = @ + 1, !.thrown = FALSE]
  IN IF q.thrown \/ q.i = Len(q.list) THEN NotifyAndReturn(next) ELSE next

\* One turn of `for (const component of components)`: the load inside its
\* try/catch, then the next component, or the end of the loop.
LoopStep(p, outcome) ==
  LET name == p.list[p.i]
      q == [loadAndRegisterComponent(p, name, outcome)
              EXCEPT !.attempted = Append(@, name), !.answers[name] = outcome]
      next == [q EXCEPT !.i = @ + 1, !.thrown = FALSE]
  IN IF q.i = Len(q.list) THEN NotifyAndReturn(next) ELSE next

InitProject ==
  proj = [ phase |-> "idle", list |-> << >>, listed |-> FALSE, i |-> 0,
           registry |-> [n \in ProjectNames |-> Unregistered],
           cache |-> [n \in ProjectNames |-> None],
           attempted |-> << >>, answers |-> [n \in ProjectNames |-> None],
           thrown |-> FALSE, notified |-> 0, rejected |-> FALSE ]

\* loadProjectComponents is called and awaits listComponents.
loadProjectComponents ==
  /\ proj.phase = "idle"
  /\ proj' = [proj EXCEPT !.phase = "listing"]
  /\ UNCHANGED << compilerVars, watcherVars, prerenderVars, managerVars, surfaceVars, compositorVars, routeVars, sseVars, dragVars, timelineVars >>

\* listComponents rejects: the outer catch logs, then notify.
ListRejects ==
  /\ proj.phase = "listing"
  /\ proj' = NotifyAndReturn(proj)
  /\ UNCHANGED << compilerVars, watcherVars, prerenderVars, managerVars, surfaceVars, compositorVars, routeVars, sseVars, dragVars, timelineVars >>

\* listComponents resolves with a list: the loop starts.
ListResolves(components) ==
  /\ proj.phase = "listing"
  /\ LET p == [proj EXCEPT !.list = components, !.listed = TRUE, !.i = 1]
     IN proj' = IF components = << >> THEN NotifyAndReturn(p)
                ELSE [p EXCEPT !.phase = "loading"]
  /\ UNCHANGED << compilerVars, watcherVars, prerenderVars, managerVars, surfaceVars, compositorVars, routeVars, sseVars, dragVars, timelineVars >>

\* The awaited load of the current component settles.
ComponentSettles(outcome) ==
  /\ proj.phase = "loading"
  /\ proj' = LoopStep(proj, outcome)
  /\ UNCHANGED << compilerVars, watcherVars, prerenderVars, managerVars, surfaceVars, compositorVars, routeVars, sseVars, dragVars, timelineVars >>

NextProject ==
  \/ loadProjectComponents
  \/ ListRejects
  \/ \E components \in ComponentLists : ListResolves(components)
  \/ \E outcome \in StorageOutcomes : ComponentSettles(outcome)

(***************************************************************************)
(* Specifications.                                                         *)
(***************************************************************************)
\* No DynamicComponentFromPath is mounted.
NoWatcher ==
  /\ ext = [lm |-> 1, data |-> DataGood1]
  /\ hook = [files |-> None, error |-> FALSE, loading |-> TRUE, lastModified |-> 0]
  /\ fetches = << >>
  /\ dyn = [compileError |-> FALSE, CompiledComponent |-> NoComponent,
             compilationVersion |-> 0]
  /\ recompiles = [t \in 1..MaxLastModified |-> 0]

\* The module compiler and its bundle cache.
Init == InitCompiler /\ InitRoute /\ NoWatcher /\ InitPrerender /\ InitManager /\ InitSurfaces /\ InitCompositor /\ InitSse /\ InitDrag /\ NoTimeline /\ InitProject

Next == NextCompiler

Spec == Init /\ [][Next]_vars

\* The hot-reload watcher.
InitW == InitCompiler /\ InitRoute /\ InitWatcher /\ InitPrerender /\ InitManager /\ InitSurfaces /\ InitCompositor /\ InitSse /\ InitDrag /\ NoTimeline /\ InitProject

SpecWatcher == InitW /\ [][NextWatcher]_vars

\* Export with frame prerendering.
SpecPrerender == Init /\ [][NextPrerender]_vars

\* The hot-reload watcher while the interval keeps firing (setInterval), every
\* request is answered and every response is delivered, and requests succeed
\* again and again.
FairWatcher ==
  /\ WF_vars(PollTick)
  /\ \A i \in 1..MaxInFlight :
       /\ WF_vars(i <= Len(fetches) /\ Serve(i))
       /\ WF_vars(i <= Len(fetches) /\ PollComplete(i))
       /\ WF_vars(i <= Len(fetches) /\ LoadComplete(i))
  /\ SF_vars(\E i \in 1..Len(fetches) : ServeResult(i, TRUE))

SpecWatcherFair == InitW /\ [][NextWatcher]_vars /\ FairWatcher

\* The hot-reload watcher of a component whose path changes or that unmounts.
NextRoute ==
  \/ NextWatcher
  \/ \E path \in Paths : ChangePath(path)
  \/ Unmount

SpecRoute == InitW /\ [][NextRoute]_vars

\* The agent service reading one chat response.
SpecSse == Init /\ [][NextSse]_vars

\* Drags of an element in the preview, and undo.
SpecDrag == Init /\ [][NextDrag]_vars

\* Components deleted from projects of every shape.
SpecTimeline == Init /\ [][NextTimeline]_vars

\* The component manager with updates arriving as agent file events.
SpecSync == Init /\ [][NextSync]_vars

\* Loading the components of a project.
SpecProject == Init /\ [][NextProject]_vars

\* The component manager handling component events.
SpecManager == Init /\ [][NextManager]_vars

\* The rendering surfaces across component replacements.
SpecSurfaces == Init /\ [][NextSurfaces]_vars

\* Compile passes over file sets with shared, nested and missing imports.
SpecPass == Init /\ [][NextPass]_vars

\* The compositor drawing prerendered frames.
SpecCompositor == Init /\ [][NextCompositor]_vars

(***************************************************************************)
(* Properties of the Bundle Cache.                                         *)
(***************************************************************************)
\* A step in which compile() is called, and one in which it returns.
BeginStep == call'.n = call.n + 1
ReturnStep == call'.pc = "done" /\ (call.pc # "done" \/ BeginStep)

\* The call was made while the cache held the module compiled from this very
\* bundle (same id, files, updatedAt).
SecondCallUnchanged == call.n >= 1 /\ call.before # None /\ call.before.src = call.bundle

CacheHit ==
  /\ call.pc = "done"
  /\ call.result = [kind |-> "ok", module |-> call.before, errors |-> <<>>]
  /\ call.work = {}

\* C1 as stated: a second compile of an unchanged, successfully compiled bundle
\* returns the same CompiledModule object and does no validation, translation
\* or module execution.
C1_SecondCompileHits == SecondCallUnchanged => CacheHit

\* C1 amended: the second compile of the unchanged bundle is a cache hit when
\* the bundle's updatedAt is strictly earlier than the cached compiledAt.
C1_SecondCompileHitsWhenOlder ==
  (SecondCallUnchanged /\ call.before.compiledAt > call.bundle.updatedAt) => CacheHit

C1_Witness ==
  /\ SecondCallUnchanged
  /\ call.before.compiledAt > call.bundle.updatedAt
  /\ CacheHit

HasForbidden(b) ==
  \E k \in 1..Len(b.files), i \in 1..Len(FORBIDDEN_PATTERNS) :
    (FORBIDDEN_PATTERNS[i].matches \cap b.files[k].content.features) # {}

CarriesEveryViolation(b, errors) ==
  \A k \in 1..Len(b.files), i \in 1..Len(FORBIDDEN_PATTERNS) :
    (FORBIDDEN_PATTERNS[i].matches \cap b.files[k].content.features) # {}
      => \E j \in 1..Len(errors) :
           errors[j] = CompileErr(b.files[k].path, "security", FORBIDDEN_PATTERNS[i].message)

Raised(c) ==
  /\ c.result.kind = "CompileException"
  /\ c.result.errors # <<>>
  /\ CarriesEveryViolation(c.bundle, c.result.errors)

\* C2 as stated: every compile of a bundle with a forbidden-pattern file
\* raises a CompileException with a non-empty list carrying every violation.
C2_ForbiddenAlwaysRaises ==
  (call.pc = "done" /\ HasForbidden(call.bundle)) => Raised(call)

\* C2 amended: unless the call found a cache entry for the id with
\* compiledAt > updatedAt, a compile of a bundle with a forbidden-pattern file
\* raises a CompileException with a non-empty list carrying every violation,
\* and the raising step leaves the cache as it was.
C2_ForbiddenRaisesOnMiss ==
  [][ (/\ ReturnStep
       /\ HasForbidden(call'.bundle)
       /\ ~(call'.before # None /\ call'.before.compiledAt > call'.bundle.updatedAt))
      => (Raised(call') /\ cache' = cache) ]_vars

C2_Witness ==
  /\ call.pc = "done"
  /\ HasForbidden(call.bundle)
  /\ Raised(call)
  /\ Len(call.result.errors) >= 3
  /\ cache[call.bundle.id] # None
  /\ cache[call.bundle.id] = call.before

\* C9 as stated: clearCache(id) removes only that id's entry, for every
\* string id; clearCache() removes all entries.
C9_ClearCacheRemovesOnlyThatId ==
  [][ \A a \in ClearArgs :
        clearCache(a) =>
          cache' = IF a.given THEN [cache EXCEPT ![a.id] = None]
                   ELSE [i \in BundleIds |-> None] ]_vars

ContentChanged == call.before # None /\ call.before.src.files # call.bundle.files

StaleReturned == call.pc = "done" /\ call.result.module = call.before

\* C10 as stated: compiling a changed bundle whose updatedAt is greater than
\* it was at the previous compile never returns the stale handle.
C10_BumpForcesRecompile ==
  (/\ call.n >= 1
   /\ ContentChanged
   /\ call.bundle.updatedAt > call.before.src.updatedAt) => ~StaleReturned

\* C10 amended: compiling a changed bundle whose updatedAt is not earlier than
\* the cached compiledAt is a cache miss: validation runs, the stale handle is
\* not returned, and a successful compile stores a new CompiledModule.
C10_BumpPastCompiledAtForcesRecompile ==
  [][ (/\ call'.n >= 1
       /\ call'.before # None
       /\ call'.before.src.files # call'.bundle.files
       /\ call'.bundle.updatedAt >= call'.before.compiledAt)
      => (/\ "validate" \in call'.work
          /\ call'.result.module # call'.before
          /\ (ReturnStep /\ call'.result.kind = "ok")
               => (/\ cache'[call'.bundle.id] = call'.result.module
                   /\ call'.result.module.obj # call'.before.obj
                   /\ call'.result.module.src = call'.bundle)) ]_vars

C10_Witness ==
  /\ call.pc = "done"
  /\ ContentChanged
  /\ call.bundle.updatedAt >= call.before.compiledAt
  /\ call.result.kind = "ok"
  /\ call.result.module.obj # call.before.obj
  /\ call.result.module.component # call.before.component

(***************************************************************************)
(* Properties of the Module Graph Resolver.                                *)
(***************************************************************************)
NoDuplicates(seq) == \A i, j \in 1..Len(seq) : seq[i] = seq[j] => i = j

IsObjectRef(m, ref) == ref \in 1..Len(m.heap) \/ ref \in { RemotionRef, ReactRef }

RECURSIVE SumLen(_, _)
SumLen(fc, names) ==
  IF names = {} THEN 0
  ELSE LET n == CHOOSE x \in names : TRUE
       IN Len(fc[n].body) + 1 + SumLen(fc, names \ {n})

\* C3: resolution of cyclic imports terminates: each module body is entered at
\* most once, the pass never takes more steps than the files have statements
\* (plus one return each), a running pass can always take its next step, and
\* every require call returned a non-null exports object.
C3_CyclicResolutionTerminates ==
  /\ NoDuplicates(pass.entered)
  /\ Len(pass.stack) <= Cardinality(DOMAIN pass.files)
  /\ pass.steps <= SumLen(pass.files, DOMAIN pass.files)
  /\ (call.pc = "exec" /\ pass.status = "running") => pass.stack # <<>>
  /\ \A h \in pass.handed : h.ref # NullRef /\ IsObjectRef(pass, h.ref)

\* The cyclic bundle resolved to the end: both bodies ran, and one of them
\* required the other while that one was still executing.
C3_Witness ==
  /\ call.pc = "exec"
  /\ pass.status = "returned"
  /\ Len(pass.entered) = 2
  /\ \E h \in pass.handed : h.early /\ h.of = pass.entered[1] /\ h.to = pass.entered[2]
  /\ \E h \in pass.handed : ~h.early /\ h.of = pass.entered[2] /\ h.to = pass.entered[1]

\* C4 as stated: the exports object handed to a dependent while its ancestor
\* is still executing is the object the ancestor's body populates and the one
\* the module cache holds for the ancestor once it has completed.
C4_LiveExportsReference ==
  \A h \in pass.handed :
    h.early =>
      /\ \A k \in 1..Len(pass.stack) :
           pass.stack[k].name = h.of => pass.stack[k].exports = h.ref
      /\ IsCompiled(pass.moduleCache, h.of) => pass.moduleCache[h.of].exports = h.ref

(***************************************************************************)
(* Properties of the Hot Reload Watcher.                                   *)
(***************************************************************************)
\* C5 as stated (its safety half): no lastModified value triggers more than
\* one recompilation, and a poll response whose timestamp is not greater than
\* the last-observed value triggers none.
C5_OneRecompilePerAdvance ==
  [][ /\ \A t \in 1..MaxLastModified : recompiles'[t] <= 1
      /\ \A i \in 1..Len(fetches) :
           (PollComplete(i) /\ fetches[i].lm <= hook.lastModified)
             => recompiles' = recompiles ]_vars

\* C6 as stated: at most one poll fetch is in flight at any time.
C6_AtMostOnePollInFlight ==
  Cardinality({ i \in 1..Len(fetches) : fetches[i].kind = "poll" }) <= 1

(***************************************************************************)
(* Properties of the Frame Prerenderer.                                    *)
(***************************************************************************)
\* C7 as stated: a prerendered element yields a frame map over N =
\* ceil(duration * fps) frames whose keys are 0..N-1 without the frames whose
\* capture failed: all of 0..N-1 when none failed, a strict subset otherwise,
\* the frames after a failed one included.
C7_FrameMapKeys ==
  \A k \in 1..Len(ex.results) :
    LET r == ex.results[k]
    IN r.kind # "null" =>
         /\ r.kind = "map"
         /\ r.keys = (0..(r.totalFrames - 1)) \ r.failed
         /\ r.failed \subseteq 0..(r.totalFrames - 1)

\* C8 as stated: once the cancellation flag is set, no further frame is
\* rendered or captured.
C8_CancelStopsPrerender ==
  [][ (cancelRequested /\ ex.phase = "prerender")
        => ~(ex'.stage = "capture" /\ ex.stage = "render")
           /\ ~(ex.stage = "capture" /\ ex'.frameCache # ex.frameCache) ]_vars

\* What the entry file's body assigns to its exports, statement by statement.
RECURSIVE StaticExports(_, _)
StaticExports(body, acc) ==
  IF body = <<>> THEN acc
  ELSE StaticExports(Tail(body),
                     IF Head(body).op = "export"
                       THEN Put(acc, Head(body).name, Head(body).val) ELSE acc)

EntryFile(b) ==
  LET k == CHOOSE k \in 1..Len(b.files) : b.files[k].path = b.entryPoint
  IN b.files[k].content

\* The entry module runs to its end and yields neither a default export nor
\* an export named Component, or what it yields is not a function.
NothingCallable(b) ==
  /\ validate(b) = <<>>
  /\ \A st \in { EntryFile(b).body[j] : j \in 1..Len(EntryFile(b).body) } : st.op = "export"
  /\ LET e == StaticExports(EntryFile(b).body, EmptyObj)
         d == Prop(e, "default")
         c == Prop(e, "Component")
     IN \/ d \in { <<>>, <<"null">> } /\ c \in { <<>>, <<"null">> }
        \/ d \in { <<"str">>, <<"obj">> }
        \/ d \in { <<>>, <<"null">> } /\ c \in { <<"str">>, <<"obj">> }

\* C11: every CompiledModule returned by compile or held by the cache has a
\* callable component and carries the bundle id it is stored under; a compile
\* whose entry module yields no default or Component export, or a value that
\* is not a function, ends in an error and returns and caches nothing.
C11_CallableComponent ==
  /\ \A i \in BundleIds :
       cache[i] # None => IsFunction(cache[i].component) /\ cache[i].bundleId = i
  /\ (call.pc = "done" /\ call.result.kind = "ok")
       => /\ IsFunction(call.result.module.component)
          /\ call.result.module.bundleId = call.bundle.id
  /\ (call.pc = "done" /\ "execute" \in call.work /\ NothingCallable(call.bundle))
       => /\ call.result.kind = "Error"
          /\ call.result.module = None

C11_Witness ==
  /\ call.pc = "done"
  /\ "execute" \in call.work
  /\ NothingCallable(call.bundle)
  /\ Prop(StaticExports(EntryFile(call.bundle).body, EmptyObj), "default") = <<"str">>
  /\ call.result.kind = "Error"
  /\ cache[call.bundle.id] # None
  /\ IsFunction(cache[call.bundle.id].component)

\* The source on disk compiles to a component.
SourceGood == IsFunction(executeMultiFileComponentFromFiles(ext.data))

\* A fetch answered with a failure, or a failed compile, of a version of the
\* source older than the one now on disk.
EarlierFailure ==
  \/ \E i \in 1..Len(fetches) :
       fetches[i].served /\ ~fetches[i].ok /\ fetches[i].at < ext.lm
  \/ hook.error /\ hook.lastModified < ext.lm
  \/ dyn.compileError /\ hook.files # None /\ hook.files.lm < ext.lm

\* What DynamicComponentFromPath renders is the component of the source on
\* disk: not the loading, load-error or compile-error display.
RendersSource ==
  /\ ~hook.loading
  /\ ~hook.error
  /\ ~dyn.compileError
  /\ dyn.CompiledComponent = executeMultiFileComponentFromFiles(ext.data)

\* C12 as stated: after a failed fetch or a failed compile, once the source
\* has been fixed and its timestamp has advanced (and is not edited again),
\* the watcher eventually renders the fixed source.
C12_RecoversAfterFix ==
  (EarlierFailure /\ SourceGood /\ ext.lm = MaxLastModified) ~> RendersSource

(***************************************************************************)
(* Properties of failed loads.                                             *)
(***************************************************************************)
\* The load step of a component update fails in this step: getComponent
\* rejected or resolved with null, and the handler's catch logs it.
UpdateLoadFails(i) ==
  /\ LoadResume(i)
  /\ mgr.loads[i].event = "updated"
  /\ mgr.loads[i].got # "detail"

\* C13: when the load step of a component update fails, the artifact that
\* was compiled before the update stays live: it is still the entry the
\* cache holds for the bundle and the registered component is unchanged.
C13_FailedLoadKeepsArtifact ==
  [][ \A i \in 1..Len(mgr.loads) :
        (UpdateLoadFails(i) /\ mgr.before[mgr.loads[i].name] # None) =>
          /\ cache'[mgr.loads[i].name] = mgr.before[mgr.loads[i].name]
          /\ mgr'.registry[mgr.loads[i].name] = mgr.registry[mgr.loads[i].name]
          /\ mgr.registry[mgr.loads[i].name] # Unregistered ]_vars

(***************************************************************************)
(* Properties of the version counter.                                      *)
(***************************************************************************)
\* The compile effect ran in this step, and what its executor call gave.
EffectRan == recompiles' # recompiles
RecompileSucceeded == EffectRan /\ IsFunction(Executed[hook'.files.data])
RecompileFailed == EffectRan /\ ~IsFunction(Executed[hook'.files.data])

\* C14: compilationVersion never decreases; a successful recompile raises
\* it by exactly one, and a failed compile, like every step without a
\* compile, leaves it unchanged.
C14_VersionCounter ==
  [][ /\ dyn'.compilationVersion >= dyn.compilationVersion
      /\ RecompileSucceeded => dyn'.compilationVersion = dyn.compilationVersion + 1
      /\ RecompileFailed => dyn'.compilationVersion = dyn.compilationVersion
      /\ ~EffectRan => dyn'.compilationVersion = dyn.compilationVersion ]_vars

\* A compile failed after an earlier one had succeeded; the counter kept the
\* value the success gave it.
C14_Witness ==
  /\ dyn.compilationVersion = 1
  /\ dyn.compileError
  /\ hook.files # None
  /\ ~IsFunction(Executed[hook.files.data])
  /\ recompiles[1] + recompiles[2] >= 2

(***************************************************************************)
(* Properties of the rendering surfaces.                                   *)
(***************************************************************************)
\* C15: on every surface a replaced component is remounted: the error a
\* boundary holds is never that of an instance that has been replaced, so
\* a new component that renders cleanly is shown, not the fallback.
C15_ReplacementRemounts ==
  \A s \in Surfaces :
    surface[s].error => surface[s].errorOf = surface[s].Component

(***************************************************************************)
(* Properties of failed compile attempts.                                  *)
(***************************************************************************)
\* A step of compile() itself: clearCache and the clock leave call and pass.
CompileStep == call' # call \/ pass' # pass
\* compile() returns in this step by raising.
CompileRaises == ReturnStep /\ call'.result.kind # "ok"
CompileSucceeds == ReturnStep /\ call'.result.kind = "ok"

\* C16: a compile attempt that fails (syntax failure, entry missing, no
\* valid default export, a module body that throws) leaves the cache as it
\* was: no step of the attempt writes the cache, the raising step included,
\* and no CompiledModule comes out of it.
C16_FailedCompileLeavesCache ==
  [][ /\ (CompileStep /\ ~CompileSucceeds) => cache' = cache
      /\ CompileRaises => call'.result.module = None ]_vars

\* A bundle whose body throws was compiled over an existing entry: compile
\* raised after executing, and the entry is still the earlier module.
C16_Witness ==
  /\ call.pc = "done"
  /\ call.result.kind = "Error"
  /\ "execute" \in call.work
  /\ call.bundle.files = FilesThrow
  /\ call.before # None
  /\ cache[call.bundle.id] = call.before

(***************************************************************************)
(* Properties of handed-out modules.                                       *)
(***************************************************************************)
\* The CompiledModule objects somebody holds: the cache, the caller of the
\* last compile, and the reader that looked the entry up when it began.
Held == ({ cache[i] : i \in BundleIds } \cup { call.before, call.result.module }) \ { None }

CompleteEntry(m, i) ==
  /\ DOMAIN m = { "obj", "bundleId", "compiledAt", "component", "src" }
  /\ m.bundleId = i
  /\ m.compiledAt \in Times
  /\ IsFunction(m.component)
  /\ m.src.id = i

\* C17: a handed-out CompiledModule is never modified: whoever holds an
\* object sees the same fields as every other holder of it; a recompile
\* stores a new object and leaves the one read before untouched; every
\* entry a reader finds in the cache is complete.
C17_ModulesImmutable ==
  /\ \A m1, m2 \in Held : m1.obj = m2.obj => m1 = m2
  /\ (call.pc = "done" /\ call.result.kind = "ok" /\ "execute" \in call.work) =>
       /\ call.before # None => call.result.module.obj # call.before.obj
       /\ CompleteEntry(call.result.module, call.bundle.id)
  /\ \A i \in BundleIds : cache[i] # None => CompleteEntry(cache[i], i)
  /\ call.before # None => CompleteEntry(call.before, call.bundle.id)

\* A bundle was recompiled over an entry a reader still holds: the cache
\* has the new object, the reader's object kept its fields.
C17_Witness ==
  /\ call.pc = "done"
  /\ call.result.kind = "ok"
  /\ "execute" \in call.work
  /\ call.before # None
  /\ cache[call.bundle.id] = call.result.module
  /\ call.result.module.obj # call.before.obj
  /\ call.result.module.component # call.before.component
  /\ call.before.compiledAt < call.result.module.compiledAt

(***************************************************************************)
(* Properties of the frame order.                                          *)
(***************************************************************************)
\* The frames of the current element whose capture has completed, with a
\* bitmap stored or without.
Captured == ex.frameCache \cup ex.failed

\* C18: within one element's pre-render the frames are processed in
\* increasing order, one at a time: whenever frame N is being rendered or
\* captured, the captures of exactly the frames 0..N-1 have completed, and
\* neither N nor any later frame has been captured.
C18_FramesSequential ==
  (ex.phase = "prerender" /\ ex.stage \in { "render", "capture" }) =>
    /\ Captured = 0..(ex.frameIndex - 1)
    /\ ex.frameIndex < ex.totalFrames

\* The third frame of an element is being rendered after one capture came
\* back without a bitmap.
C18_Witness ==
  /\ ex.phase = "prerender"
  /\ ex.stage = "render"
  /\ ex.frameIndex = 2
  /\ ex.failed # {}
  /\ ex.frameCache # {}

(***************************************************************************)
(* Properties of validation before execution.                              *)
(***************************************************************************)
\* Every file of the served file map passes the Source Validator.
PassesValidator(data) ==
  \A n \in DOMAIN data.files : validateCode(data.files[n], n) = <<>>

\* The executor of DynamicComponentFromPath ran a module body in this step.
ExecutorRanBody ==
  /\ EffectRan
  /\ HasCode(hook'.files.data.files,
             IF hook'.files.data.main # <<>> THEN hook'.files.data.main
             ELSE <<"component">>)
  /\ ~TransformThrows(hook'.files.data.files[
             IF hook'.files.data.main # <<>> THEN hook'.files.data.main
             ELSE <<"component">>])

\* C19: no author-supplied module body is executed unless every file of its
\* bundle passed the Source Validator in the same attempt; here for the
\* executor of DynamicComponentFromPath.
C19_ValidatedBeforeExecuted ==
  [][ ExecutorRanBody => PassesValidator(hook'.files.data) ]_vars

(***************************************************************************)
(* Properties of component deletion.                                       *)
(***************************************************************************)
\* C20: once onComponentDeleted(name) has been handled, and until a later
\* create or update event for name, neither the bundle cache nor the
\* component registry holds an entry for name, whatever loads were in
\* flight when the deletion was handled.
C20_DeletedStaysGone ==
  \A n \in ComponentNames :
    mgr.deleted[n] => cache[n] = None /\ mgr.registry[n] = Unregistered

(***************************************************************************)
(* Properties of the bundle status.                                        *)
(***************************************************************************)
\* The last compile the manager ran raised a CompileException.
ViolationRaised == mgr.last.step = "compile" /\ mgr.last.raised = "CompileException"

\* C21: when a compile attempt detects a validation violation, the bundle's
\* status is error and its errors list is non-empty, besides the exception
\* raised to the caller.
C21_ViolationSetsStatus ==
  ViolationRaised =>
    /\ mgr.last.errors # <<>>
    /\ mgr.last.bundle.status = "error"
    /\ mgr.last.bundle.errors # <<>>

(***************************************************************************)
(* Properties of the progress reports.                                     *)
(***************************************************************************)
\* Fractions are pairs << numerator, denominator >> with denominator > 0.
FracLeq(p, q) == p[1] * q[2] <= q[1] * p[2]
InUnitInterval(p) == p[2] > 0 /\ 0 <= p[1] /\ p[1] <= p[2]

\* The capture of a frame completed in this step, with or without a bitmap.
FrameCompleted ==
  /\ ex.phase = "prerender" /\ ex.stage = "capture"
  /\ ex' # ex
  /\ ex'.outcome # "error"

\* What the callback is to report for the frame whose capture completes.
FrameFraction ==
  << (ex.i - 1) * ex.totalFrames + ex.frameIndex, Len(ex.elements) * ex.totalFrames >>

\* C22: during pre-rendering every completed frame is followed by a
\* progress report of (element index + frame index / total frames) /
\* element count; the reported values never decrease and lie in [0, 1],
\* within one element and across the elements (the report that opens the
\* next element follows the frame's own report in the same step).
C22_ProgressMonotone ==
  [][ /\ InUnitInterval(ex'.progress)
      /\ ex'.phase = ex.phase => FracLeq(ex.progress, ex'.progress)
      /\ (ex.phase = "idle" /\ ex'.phase = "prerender") => ex'.progress[1] = 0
      /\ FrameCompleted =>
           /\ InUnitInterval(FrameFraction)
           /\ FracLeq(ex.progress, FrameFraction)
           /\ FracLeq(FrameFraction, ex'.progress)
           /\ ex'.i = ex.i => FracLeq(ex'.progress, FrameFraction) ]_vars

\* The second element of two is past its first frame: the reported value
\* is above one half and below one.
C22_Witness ==
  /\ ex.phase = "prerender"
  /\ Len(ex.elements) = 2
  /\ ex.i = 2
  /\ ex.frameIndex >= 2
  /\ ex.progress[1] * 2 > ex.progress[2]
  /\ ex.progress[1] < ex.progress[2]

(***************************************************************************)
(* Properties of the compositor.                                           *)
(***************************************************************************)
\* The last render() looked up an index the frame map does not hold.
MissingFrameLookedUp ==
  /\ node.last.returned
  /\ ~node.last.isOutRange
  /\ node.frameCache # NoFrameCache
  /\ node.last.frame \notin node.frameCache

\* C23: when the frame map holds no snapshot for the index looked up,
\* render draws nothing, returns normally, and the context is as it was
\* before the call: same saved-state stack, same globalAlpha.
C23_MissingFrameDrawsNothing ==
  MissingFrameLookedUp =>
    /\ node.last.drew = -1
    /\ node.canvas.drawn = {}
    /\ node.canvas.stack = node.last.before.stack
    /\ node.canvas.globalAlpha = node.last.before.globalAlpha

\* A node with opacity one half looked up the one frame its map lacks.
C23_Witness ==
  /\ MissingFrameLookedUp
  /\ node.params.opacity = 50
  /\ node.params.trimStart = 0
  /\ node.last.frame < TotalFrames(node.params.element, node.params.fps)
  /\ node.frameCache # {}

(***************************************************************************)
(* Properties of module resolution.                                        *)
(***************************************************************************)
\* The require calls that returned the exports of a bundle file.
HandedFiles == { h \in pass.handed : h.of \in DOMAIN pass.files }

\* C24: within one compile pass each module body is executed at most once,
\* however many modules import it: no name is entered twice, and a require
\* of a module whose body has completed returns the exports its cache entry
\* holds, the same object for every importer.
C24_BodiesExecuteOnce ==
  /\ NoDuplicates(pass.entered)
  /\ Len(pass.entered) <= Cardinality(DOMAIN pass.files)
  /\ \A h \in HandedFiles :
       (~h.early /\ IsCompiled(pass.moduleCache, h.of)) =>
          h.ref = pass.moduleCache[h.of].exports
  /\ \A h1, h2 \in HandedFiles :
       (h1.of = h2.of /\ ~h1.early /\ ~h2.early) => h1.ref = h2.ref

\* The diamond resolved to the end: D was handed to B and to C, and ran once.
C24_Witness ==
  /\ pass.status = "returned"
  /\ Len(pass.entered) = 4
  /\ \E h1, h2 \in HandedFiles :
       /\ h1.of = <<"D">> /\ h2.of = <<"D">>
       /\ h1.to = <<"B">> /\ h2.to = <<"C">>
       /\ h1.ref = h2.ref

\* The order of first use along the import graph from a module: the module,
\* then, statement by statement, the bundle files its relative imports
\* name, each followed by its own imports, none of them twice.
RECURSIVE Visit(_, _, _), VisitBody(_, _, _, _)
Visit(fc, name, acc) ==
  IF \E k \in 1..Len(acc) : acc[k] = name THEN acc
  ELSE VisitBody(fc, fc[name].body, 1, Append(acc, name))
VisitBody(fc, body, k, acc) ==
  IF k > Len(body) THEN acc
  ELSE LET st == body[k]
           target == StripExt(StripDotDotSlash(StripDotSlash(st.arg)))
       IN IF st.op = "require" /\ IsRelative(st.arg) /\ HasCode(fc, target)
             /\ st.arg \notin DOMAIN mockModules
            THEN VisitBody(fc, body, k + 1, Visit(fc, target, acc))
            ELSE VisitBody(fc, body, k + 1, acc)

FirstUseOrder(fc, entry) == Visit(fc, entry, << >>)

IsPrefix(p, q) == Len(p) <= Len(q) /\ SubSeq(q, 1, Len(p)) = p

\* C25: module execution order is deterministic: in every compile pass the
\* bodies entered so far are an initial part of the first-use order of the
\* import graph from the entry, which the file set and the entry fix, and a
\* pass that returns has entered exactly that order.
C25_FirstUseOrder ==
  call.pc = "exec" =>
    LET order == FirstUseOrder(pass.files, StripExt(call.bundle.entryPoint))
    IN /\ IsPrefix(pass.entered, order)
       /\ pass.status = "returned" => pass.entered = order

\* The diamond ran in the order index, B, D, C.
C25_Witness ==
  /\ call.pc = "exec"
  /\ pass.status = "returned"
  /\ pass.entered = << <<"index">>, <<"B">>, <<"D">>, <<"C">> >>

\* The directory part of a file name: everything up to its last "/".
RECURSIVE Dir(_)
Dir(name) ==
  IF name = << >> THEN << >>
  ELSE IF name[Len(name)] = "/" THEN name
  ELSE Dir(SubSeq(name, 1, Len(name) - 1))

\* A relative specifier resolved against the importing file's own path.
ResolveFrom(importer, specifier) ==
  LET dir == Dir(importer)
  IN IF specifier[1] = "./" THEN dir \o StripExt(Tail(specifier))
     ELSE Dir(SubSeq(dir, 1, Len(dir) - 1)) \o StripExt(Tail(specifier))

\* C26: the import function is scoped to the importing module: every
\* bundle file a module was handed is the file one of its relative imports
\* names when resolved against the module's own directory.
C26_ImportsScopedToImporter ==
  \A h \in HandedFiles :
    \E k \in 1..Len(pass.files[h.to].body) :
      LET st == pass.files[h.to].body[k]
      IN /\ st.op = "require"
         /\ IsRelative(st.arg)
         /\ ResolveFrom(h.to, st.arg) = h.of

\* The require calls that resolved to nothing: no bundle file, no built-in.
HandedUnresolved ==
  { h \in pass.handed : h.of \notin DOMAIN pass.files /\ h.of \notin DOMAIN mockModules }

\* Some body of the pass has a statement that throws.
SomeBodyThrows ==
  \E n \in DOMAIN pass.files :
    \/ TransformThrows(pass.files[n])
    \/ \E k \in 1..Len(pass.files[n].body) : pass.files[n].body[k].op = "throw"

\* C27: an import that matches no bundle file and no built-in module
\* returns an empty exports object and does not fail the pass: the pass
\* throws only when a body throws, and the importer goes on executing.
C27_UnresolvedImportsAreEmpty ==
  /\ \A h \in HandedUnresolved :
       /\ h.ref \in 1..Len(pass.heap)
       /\ pass.heap[h.ref] = EmptyObj
  /\ pass.status = "threw" => SomeBodyThrows

\* The entry with a missing relative import and three modules that are not
\* built in ran to its end and compile returned its component.
C27_Witness ==
  /\ call.pc = "done"
  /\ call.bundle.files = FilesUnresolved
  /\ call.result.kind = "ok"
  /\ call.result.module.component = Fn1

\* What the entry file's text exports under a name: the value of its last
\* export statement of that name, or undefined.
ExportedAs(body, n) ==
  LET ks == { k \in 1..Len(body) : body[k].op = "export" /\ body[k].name = n }
  IN IF ks = {} THEN << >>
     ELSE body[CHOOSE k \in ks : \A j \in ks : j <= k].val

\* The entry file's body, from the bundle the compile call was given.
EntryBody == FileContents(call.bundle.files)[StripExt(call.bundle.entryPoint)].body

\* The value the fallback chain picks: the default export when it is there
\* (a default of undefined or null counts as not there), else Component.
Chosen ==
  LET d == ExportedAs(EntryBody, "default")
  IN IF d \notin { << >>, <<"null">> } THEN d ELSE ExportedAs(EntryBody, "Component")

ExtractionFails(c) == c.result.kind = "Error" /\ c.result.module = None
ExtractionYields(c, f) == c.result.kind = "ok" /\ c.result.module.component = f

\* The step in which compile returns after the entry ran to its end.
ExtractionStep == call.pc = "exec" /\ call'.pc = "done" /\ pass.status = "returned"

\* C28: extraction takes the default export when present, else Component;
\* a chosen object exposing its own default is unwrapped exactly one level;
\* what is not callable after that one unwrap is a failure.
C28_ExtractionFallbackChain ==
  [][ ExtractionStep =>
        LET ch == Chosen
        IN /\ IsFunction(ch) => ExtractionYields(call', ch)
           /\ (ch # << >> /\ ch[1] = "wrap" /\ IsFunction(Tail(ch)))
                 => ExtractionYields(call', Tail(ch))
           /\ (ch # << >> /\ ch[1] = "wrap" /\ ~IsFunction(Tail(ch)))
                 => ExtractionFails(call')
           /\ (ch = << >> \/ ch[1] \notin { "wrap", "fn1", "fn2" })
                 => ExtractionFails(call') ]_vars

\* A default export wrapping a function two levels deep, beside a callable
\* Component export, was executed, extracted and reported as a failure.
C28_Witness ==
  /\ call.pc = "done"
  /\ "execute" \in call.work
  /\ ExportedAs(EntryBody, "default") = <<"wrap", "wrap", "fn2">>
  /\ ExportedAs(EntryBody, "Component") = Fn2
  /\ ExtractionFails(call)

\* The node rendered at a time inside its element's range.
RenderedInRange == node.last.returned /\ ~node.last.isOutRange

\* The key under which prerenderRemotionFrames stored the frame of the
\* instant node.last.time: frame k is captured for the k-th frame period
\* after the element's start.
PrerenderedKey ==
  ((node.last.time - node.params.startTime) * node.params.fps) \div 4

\* C29: for a time inside the element's range and any trimStart >= 0, the
\* index the compositor looks up is one of the keys 0..ceil(duration*fps)-1
\* the prerenderer fills, and is the key that holds the frame of that instant.
C29_LookupMatchesPrerender ==
  RenderedInRange =>
    /\ node.last.frame \in 0..(TotalFrames(node.params.element, node.params.fps) - 1)
    /\ node.last.frame = PrerenderedKey

\* The version of the file set the hook exposes, 0 before the first load.
ExposedVersion(h) == IF h.files = None THEN 0 ELSE h.files.lm

\* C30: the watcher's last-observed timestamp never decreases and the file
\* set it exposes never goes back to an older version, whatever the order
\* in which overlapping fetches complete.
C30_WatcherNeverGoesBack ==
  [][ /\ hook'.lastModified >= hook.lastModified
      /\ ExposedVersion(hook') >= ExposedVersion(hook) ]_vars

\* C31: the watcher applies only responses that belong to its current
\* component path: what a fetch issued for a previous path, or before the
\* unmount, returns never becomes the watcher's files.
C31_OnlyCurrentPathApplied ==
  [][ route'.flip # route.flip =>
        /\ route.mounted
        /\ route'.shown = route.componentPath ]_vars

\* What the server sent, as the events the client is to dispatch.
SentEvents ==
  [ i \in 1..Len(sse.sent) |->
      [event |-> << sse.sent[i].event >>, data |-> << Json(sse.sent[i].data) >>] ]

\* C32: sendMessage dispatches every event the server sent exactly once and
\* in the order sent, however the byte stream was split into chunks.
C32_EveryEventDispatchedOnce ==
  sse.phase = "returned" => sse.dispatched = SentEvents

\* C33: a drag is one undoable step: the moves push no history, mouse-up
\* pushes exactly one command when the position changed, and undoing that
\* command gives the element the transform it had before the drag began.
C33_DragIsOneUndoableStep ==
  [][ /\ (drag.dragStart # NoDrag /\ drag'.dragStart # NoDrag)
           => drag'.history = drag.history
      /\ (drag.dragStart # NoDrag /\ drag'.dragStart = NoDrag)
           => Len(drag'.history) =
                Len(drag.history) + (IF drag.tracks # drag.began THEN 1 ELSE 0)
      /\ (Len(drag'.history) < Len(drag.history))
           => drag'.tracks = drag.history[Len(drag.history)].began ]_vars

\* The last loadAndRegisterComponent call got its detail and called compile.
ReachedCompile == mgr.last.step \in { "compile", "ok" }

\* C34: a loadAndRegisterComponent call that reaches moduleCompiler.compile
\* is never served from the bundle cache, with or without a clearCache
\* before it: its bundle's updatedAt is the current time.
C34_LoadNeverServedFromCache ==
  ReachedCompile => ~mgr.last.hit

\* A load recompiled although the cache held an entry for its component.
C34_Witness ==
  /\ mgr.last.step = "ok"
  /\ mgr.last.hadEntry
  /\ ~mgr.last.hit

\* The elements of a timeline, each with its track and the component it uses.
ElementsOf(tracks) ==
  UNION { { [track |-> tracks[t].id, type |-> tracks[t].type, el |-> tracks[t].elements[e]] :
              e \in 1..Len(tracks[t].elements) } : t \in 1..Len(tracks) }

\* C35: after onComponentDeleted(name) no element with componentId = name
\* remains in any remotion track, and the elements that use other
\* components are left in place.
C35_DeletedComponentLeavesTimeline ==
  tl.removed # "" =>
    /\ \A x \in ElementsOf(tl.tracks) :
         x.type = "remotion" => x.el.componentId # tl.removed
    /\ ElementsOf(tl.tracks) =
         { x \in ElementsOf(tl.before) : x.el.componentId # tl.removed }
    /\ \A t \in 1..Len(tl.tracks) :
         LET keep(el) == el.componentId # tl.removed
         IN tl.tracks[t].elements = SelectSeq(tl.before[t].elements, keep)

\* A removal took an element out of a track that also holds an element of
\* another component, next to a second track using the removed component.
C35_Witness ==
  /\ tl.removed = "b1"
  /\ Len(tl.before) = 2
  /\ \A t \in 1..2 : tl.before[t].type = "remotion"
  /\ [e \in 1..Len(tl.before[1].elements) |-> tl.before[1].elements[e].componentId]
       = <<"b1", "b2">>
  /\ Len(tl.before[2].elements) = 2
  /\ \A e \in 1..2 : tl.before[2].elements[e].componentId = "b1"
  /\ Len(tl.tracks[1].elements) = 1
  /\ tl.tracks[2].elements = << >>

\* The last handler run was onComponentCreated's and its load failed.
CreatedFailed ==
  mgr.last.event = "created" /\ mgr.last.step \in { "load", "compile" }

\* C36: onComponentCreated inserts a timeline element only after the
\* component was loaded, compiled and registered; when loading or compiling
\* fails it inserts nothing, notifies nobody and passes no error on.
C36_InsertOnlyAfterRegistered ==
  mgr.last.event = "created" =>
    /\ mgr.last.handler.inserted =>
         /\ mgr.last.step = "ok"
         /\ mgr.last.after # Unregistered
    /\ CreatedFailed =>
         /\ ~mgr.last.handler.inserted
         /\ ~mgr.last.handler.notified
         /\ ~mgr.last.handler.rejected

\* The first created component failed to compile and the timeline is empty.
C36_Witness ==
  /\ CreatedFailed
  /\ mgr.last.step = "compile"
  /\ mgr.events = 1
  /\ mgr.loads = << >>
  /\ mgr.timeline["b1"] = 0

\* C37: handling an update of an already known component re-registers it
\* and leaves the timeline unchanged: no further element is inserted.
C37_UpdateLeavesTimeline ==
  (mgr.last.trigger \in { "updated", "file.updated" } /\ mgr.last.step = "ok") =>
    /\ mgr.last.after # Unregistered
    /\ ~mgr.last.handler.inserted

\* The details that load and compile: their source parses, passes
\* validation and exports a component.
Loadable == { DetailPlain, DetailWithDep }

\* C38: loadProjectComponents isolates failures: a component whose load or
\* compile fails keeps no other listed component from being loaded and
\* registered, the call never rejects, and the listeners are notified
\* exactly once, after all components were attempted.
C38_ProjectLoadIsolatesFailures ==
  /\ ~proj.rejected
  /\ proj.notified = (IF proj.phase = "returned" THEN 1 ELSE 0)
  /\ (proj.phase = "returned" /\ proj.listed) =>
       /\ proj.attempted = proj.list
       /\ \A k \in 1..Len(proj.list) :
            LET name == proj.list[k]
            IN (proj.registry[name] # Unregistered) <=> (proj.answers[name] \in Loadable)

\* The first listed component failed and the second was registered.
C38_Witness ==
  /\ proj.phase = "returned"
  /\ Len(proj.list) = 2
  /\ proj.answers[proj.list[1]] \notin Loadable
  /\ proj.registry[proj.list[1]] = Unregistered
  /\ proj.registry[proj.list[2]] # Unregistered
  /\ proj.notified = 1

=============================================================================
